---- MODULE Spec2Model ----
(***************************************************************************)
(* SEO report aggregation and synthesis pipeline.                          *)
(*                                                                         *)
(* ExecutiveSummaryGenerator (src/lib/executive-summary-generator.ts) and  *)
(* RecommendationsEngine (src/lib/recommendations-engine.ts) are pure      *)
(* static functions of the four module payloads.  The state is the input   *)
(* payload `data` and the outcome of each call.                            *)
(*                                                                         *)
(* SEOReportGenerator.generateCompleteReport                               *)
(* (src/lib/seo-report-generator.ts) derives the domain from the url,      *)
(* calls both of them, compiles the report, renders it with                *)
(* HTMLReportTemplate.generate (src/lib/html-report-template.ts) and, for  *)
(* the pdf format, converts the document.  The two generate-report routes  *)
(* (src/unnamed/part_001, src/unnamed/part_002) validate the request,      *)
(* call the generator and answer with a JSON response.                     *)
(*                                                                         *)
(* Strings the code parses (the url) are sequences of one-character        *)
(* strings; a rendered document is the sequence of its sections.           *)
(*                                                                         *)
(* Numbers: every score, percentage and count the providers emit is an     *)
(* integer (Math.round / Math.floor in the routes).  The two averages the  *)
(* summary computes are kept as exact fractions [n, d]; for integers in    *)
(* 0..100 the IEEE-754 double results of x/2 and x/3 compare with 85, 70,   *)
(* 50 and 40 exactly as the fractions do.                                  *)
(*                                                                         *)
(* Message strings are the source's literals without their leading emoji.  *)
(***************************************************************************)
EXTENDS Integers, Sequences, FiniteSets, TLC

VARIABLES
    data,              \* the argument of generate: the four module payloads
    summary,           \* outcome of ExecutiveSummaryGenerator.generate(data)
    generated,         \* RecommendationsEngine.generate: local list before sorting
    recommendations,   \* outcome of RecommendationsEngine.generate(data)
    url,               \* the url of the request
    clock,             \* the system time: a day and the millisecond within it
    reportData,        \* the SEOReportData handed to HTMLReportTemplate.generate
    html,              \* outcome of HTMLReportTemplate.generate(reportData)
    result,            \* outcome of SEOReportGenerator.generateCompleteReport
    response,          \* the response of the route that was called
    console,           \* what generateCompleteReport has logged, with the time of each line
    browser,           \* the browser of generatePDF: "none", "open" or "closed"
    pc,                \* the analyze-and-report handler: "idle", "awaiting" or "done"
    requests,          \* the state of its request to each provider endpoint
    keys,              \* the SERP providers an API key is configured for
    contacted,         \* the SERP providers fetchKeywordData has contacted, in order
    keywordsResponse,  \* the response of the keywords endpoint
    invocations        \* repeated calls of the two generators: input and latest results

\* the state of the analyze-and-report route, of the keywords endpoint and of
\* the repeated invocations
serviceVars == <<pc, requests, keys, contacted, keywordsResponse, invocations>>

vars == <<data, summary, generated, recommendations,
          url, clock, reportData, html, result, response,
          console, browser, serviceVars>>

(***************************************************************************)
(* Bounds                                                                  *)
(***************************************************************************)
\* inputs are sampled within Radius of every threshold the code compares with
Radius == 1

(***************************************************************************)
(* Values                                                                  *)
(***************************************************************************)
\* a module missing from the payload (JavaScript undefined)
Undefined == [undefined |-> TRUE]

\* outcome of a call that has not been made
NotCalled == [status |-> "idle"]

\* outcome of a call that threw
Raised(what) == [status |-> "raised", error |-> what]

\* outcome of a call that returned v
Returned(v) == [status |-> "returned", value |-> v]

ModuleNames == {"technicalSeo", "contentAudit", "keywords", "backlinks"}

CwvScores == {"good", "needs-improvement", "poor"}

Min(a, b) == IF a <= b THEN a ELSE b

\* the integers within Radius of a member of S
Near(S) == UNION {(t - Radius)..(t + Radius) : t \in S}

\* exact fraction n/d, d > 0
Frac(n, d) == [n |-> n, d |-> d]

\* q / k for a fraction q and a positive integer k
FracDiv(q, k) == Frac(q.n, q.d * k)

\* q + i for a fraction q and an integer i
FracAddInt(q, i) == Frac(q.n + i * q.d, q.d)

\* q >= i for a fraction q and an integer i
FracGeq(q, i) == q.n >= i * q.d

\* Array.prototype.slice(from, to) on a sequence (0-based, end exclusive)
slice(s, from, to) == SubSeq(s, from + 1, Min(to, Len(s)))

(***************************************************************************)
(* The payload types                                                       *)
(***************************************************************************)
\* a display value that carries the given categorical score
lcpValue == [c \in CwvScores |->
    IF c = "good" THEN "2.1s" ELSE IF c = "poor" THEN "4.8s" ELSE "3.2s"]

clsValue == [c \in CwvScores |->
    IF c = "good" THEN "0.08" ELSE IF c = "poor" THEN "0.31" ELSE "0.18"]

TechnicalSEOData(performanceScore, seoScore, lcp, cls) ==
    [ coreWebVitals      |-> [lcp |-> [value |-> lcpValue[lcp], score |-> lcp],
                              cls |-> [value |-> clsValue[cls], score |-> cls],
                              fid |-> [value |-> "85ms", score |-> "good"]],
      performanceScore   |-> performanceScore,
      seoScore           |-> seoScore,
      accessibilityScore |-> 90,
      bestPracticesScore |-> 90,
      issues             |-> <<>> ]

ContentAuditData(titlePct, metaPct, h1Pct, averageWordCount, fresh, stale) ==
    [ totalPages           |-> 100,
      indexedPages         |-> 100,
      topPages             |-> <<>>,
      issues               |-> <<>>,
      metadataCompleteness |->
          [ titleTags        |-> [count |-> titlePct, percentage |-> titlePct],
            metaDescriptions |-> [count |-> metaPct, percentage |-> metaPct],
            h1Tags           |-> [count |-> h1Pct, percentage |-> h1Pct] ],
      contentMetrics       |->
          [ averageWordCount |-> averageWordCount,
            pagesWithCTAs    |-> [count |-> 50, percentage |-> 50],
            contentFreshness |-> [fresh |-> fresh, stale |-> stale] ] ]

KeywordsData(top10Pct, trafficChange, indexedKeywords) ==
    [ totalKeywords      |-> 200,
      indexedKeywords    |-> indexedKeywords,
      distribution       |-> [top10 |-> [count |-> top10Pct, percentage |-> top10Pct]],
      performingKeywords |-> [best |-> <<>>, worst |-> <<>>],
      organicTraffic     |-> [estimated |-> 1000, change |-> trafficChange] ]

BacklinksData(referringDomains, growthChange, domainRating) ==
    [ totalBacklinks         |-> 5000,
      referringDomains       |-> referringDomains,
      domainRating           |-> domainRating,
      anchorTexts            |-> <<>>,
      topReferringDomains    |-> <<>>,
      referringDomainsGrowth |-> [change |-> growthChange] ]

Payload(technicalSeo, contentAudit, keywords, backlinks) ==
    [ technicalSeo |-> technicalSeo, contentAudit |-> contentAudit,
      keywords |-> keywords, backlinks |-> backlinks ]

\* the modules missing from a payload
Absent(d) == {m \in ModuleNames : d[m] = Undefined}

(***************************************************************************)
(* ExecutiveSummaryGenerator                                               *)
(***************************************************************************)
\* variant of calculateOverallHealth: thresholds compared with > instead of >=
calculateOverallHealth_Exclusive(d) ==
    IF d.technicalSeo = Undefined THEN "poor"
    ELSE IF d.contentAudit = Undefined THEN "poor"
    ELSE
      LET techScore == d.technicalSeo.performanceScore
          seoScore  == d.technicalSeo.seoScore
          metadataCompleteness ==
              FracDiv(Frac(d.contentAudit.metadataCompleteness.titleTags.percentage
                         + d.contentAudit.metadataCompleteness.metaDescriptions.percentage, 1), 2)
          averageScore ==
              FracDiv(FracAddInt(metadataCompleteness, techScore + seoScore), 3)
      IN  IF averageScore.n > 85 * averageScore.d THEN "excellent"
          ELSE IF averageScore.n > 70 * averageScore.d THEN "good"
          ELSE IF averageScore.n > 50 * averageScore.d THEN "fair"
          ELSE "poor"

calculateOverallHealth(d) ==
    IF d.technicalSeo = Undefined THEN "poor"
    ELSE IF d.contentAudit = Undefined THEN "poor"
    ELSE
      LET techScore == d.technicalSeo.performanceScore
          seoScore  == d.technicalSeo.seoScore
          metadataCompleteness ==
              FracDiv(Frac(d.contentAudit.metadataCompleteness.titleTags.percentage
                         + d.contentAudit.metadataCompleteness.metaDescriptions.percentage, 1), 2)
          averageScore ==
              FracDiv(FracAddInt(metadataCompleteness, techScore + seoScore), 3)
      IN  IF FracGeq(averageScore, 85) THEN "excellent"
          ELSE IF FracGeq(averageScore, 70) THEN "good"
          ELSE IF FracGeq(averageScore, 50) THEN "fair"
          ELSE "poor"

\* the property reads of identifyQuickWins dereference all four modules
identifyQuickWinsThrows(d) == Absent(d) # {}

\* variant of identifyQuickWins: seoScore compared with > instead of >=
identifyQuickWins_SeoExclusive(d) ==
    LET w1 == IF d.technicalSeo.coreWebVitals.cls.score = "good"
              THEN <<"Excellent layout stability (CLS score)">> ELSE <<>>
        w2 == IF d.technicalSeo.seoScore > 90
              THEN w1 \o <<"Strong SEO foundation in place">> ELSE w1
        w3 == IF d.contentAudit.contentMetrics.averageWordCount > 800
              THEN w2 \o <<"Good content depth with adequate word count">> ELSE w2
        w4 == IF d.contentAudit.metadataCompleteness.titleTags.percentage > 80
              THEN w3 \o <<"Most pages have proper title tags">> ELSE w3
        w5 == IF d.keywords.distribution.top10.percentage >= 30
              THEN w4 \o <<"Strong keyword rankings in top 10 positions">> ELSE w4
        w6 == IF d.backlinks.referringDomainsGrowth.change > 0
              THEN w5 \o <<"Positive backlink growth trend">> ELSE w5
        wins == IF d.backlinks.domainRating > 70
                THEN w6 \o <<"High domain authority">> ELSE w6
    IN  slice(wins, 0, 5)

\* variant of identifyQuickWins: keeps four entries
identifyQuickWins_SliceFour(d) ==
    LET w1 == IF d.technicalSeo.coreWebVitals.cls.score = "good"
              THEN <<"Excellent layout stability (CLS score)">> ELSE <<>>
        w2 == IF d.technicalSeo.seoScore >= 90
              THEN w1 \o <<"Strong SEO foundation in place">> ELSE w1
        w3 == IF d.contentAudit.contentMetrics.averageWordCount > 800
              THEN w2 \o <<"Good content depth with adequate word count">> ELSE w2
        w4 == IF d.contentAudit.metadataCompleteness.titleTags.percentage > 80
              THEN w3 \o <<"Most pages have proper title tags">> ELSE w3
        w5 == IF d.keywords.distribution.top10.percentage >= 30
              THEN w4 \o <<"Strong keyword rankings in top 10 positions">> ELSE w4
        w6 == IF d.backlinks.referringDomainsGrowth.change > 0
              THEN w5 \o <<"Positive backlink growth trend">> ELSE w5
        wins == IF d.backlinks.domainRating > 70
                THEN w6 \o <<"High domain authority">> ELSE w6
    IN  slice(wins, 0, 4)

identifyQuickWins(d) ==
    LET w1 == IF d.technicalSeo.coreWebVitals.cls.score = "good"
              THEN <<"Excellent layout stability (CLS score)">> ELSE <<>>
        w2 == IF d.technicalSeo.seoScore >= 90
              THEN w1 \o <<"Strong SEO foundation in place">> ELSE w1
        w3 == IF d.contentAudit.contentMetrics.averageWordCount > 800
              THEN w2 \o <<"Good content depth with adequate word count">> ELSE w2
        w4 == IF d.contentAudit.metadataCompleteness.titleTags.percentage > 80
              THEN w3 \o <<"Most pages have proper title tags">> ELSE w3
        w5 == IF d.keywords.distribution.top10.percentage >= 30
              THEN w4 \o <<"Strong keyword rankings in top 10 positions">> ELSE w4
        w6 == IF d.backlinks.referringDomainsGrowth.change > 0
              THEN w5 \o <<"Positive backlink growth trend">> ELSE w5
        wins == IF d.backlinks.domainRating > 70
                THEN w6 \o <<"High domain authority">> ELSE w6
    IN  slice(wins, 0, 5)

\* variant of identifyUrgentIssues: h1Tags% compared with 50, as its neighbours
identifyUrgentIssues_H1Threshold(d) ==
    LET i1 == IF d.technicalSeo.performanceScore < 50
              THEN <<"Poor performance score - immediate optimization needed">> ELSE <<>>
        i2 == IF d.technicalSeo.coreWebVitals.lcp.score = "poor"
              THEN i1 \o <<"Slow page loading speed (LCP > 4s)">> ELSE i1
        i3 == IF d.contentAudit.metadataCompleteness.titleTags.percentage < 50
              THEN i2 \o <<"Many pages missing title tags">> ELSE i2
        i4 == IF d.contentAudit.metadataCompleteness.metaDescriptions.percentage < 50
              THEN i3 \o <<"Many pages missing meta descriptions">> ELSE i3
        i5 == IF d.contentAudit.metadataCompleteness.h1Tags.percentage < 50
              THEN i4 \o <<"Most pages lack proper H1 headings">> ELSE i4
        i6 == IF d.keywords.distribution.top10.percentage < 10
              THEN i5 \o <<"Very few keywords ranking in top 10">> ELSE i5
        issues == IF d.backlinks.referringDomainsGrowth.change < -10
                  THEN i6 \o <<"Significant backlink loss detected">> ELSE i6
    IN  slice(issues, 0, 5)

identifyUrgentIssues(d) ==
    LET i1 == IF d.technicalSeo.performanceScore < 50
              THEN <<"Poor performance score - immediate optimization needed">> ELSE <<>>
        i2 == IF d.technicalSeo.coreWebVitals.lcp.score = "poor"
              THEN i1 \o <<"Slow page loading speed (LCP > 4s)">> ELSE i1
        i3 == IF d.contentAudit.metadataCompleteness.titleTags.percentage < 50
              THEN i2 \o <<"Many pages missing title tags">> ELSE i2
        i4 == IF d.contentAudit.metadataCompleteness.metaDescriptions.percentage < 50
              THEN i3 \o <<"Many pages missing meta descriptions">> ELSE i3
        i5 == IF d.contentAudit.metadataCompleteness.h1Tags.percentage < 30
              THEN i4 \o <<"Most pages lack proper H1 headings">> ELSE i4
        i6 == IF d.keywords.distribution.top10.percentage < 10
              THEN i5 \o <<"Very few keywords ranking in top 10">> ELSE i5
        issues == IF d.backlinks.referringDomainsGrowth.change < -10
                  THEN i6 \o <<"Significant backlink loss detected">> ELSE i6
    IN  slice(issues, 0, 5)

\* variant of analyzeTrafficStatus: a change of exactly 5 counts as increasing
analyzeTrafficStatus_Inclusive(d) ==
    LET trafficChange == d.keywords.organicTraffic.change
    IN  IF trafficChange >= 5 THEN "increasing"
        ELSE IF trafficChange < -5 THEN "decreasing"
        ELSE "stable"

analyzeTrafficStatus(d) ==
    LET trafficChange == d.keywords.organicTraffic.change
    IN  IF trafficChange > 5 THEN "increasing"
        ELSE IF trafficChange < -5 THEN "decreasing"
        ELSE "stable"

\* variant of assessCompetitivePosition: the average is rounded (Math.round)
assessCompetitivePosition_Rounded(d) ==
    LET domainRating  == d.backlinks.domainRating
        top10Keywords == d.keywords.distribution.top10.percentage
        overallScore  == Frac((domainRating + top10Keywords + 1) \div 2, 1)
    IN  IF FracGeq(overallScore, 70) THEN "strong"
        ELSE IF FracGeq(overallScore, 40) THEN "moderate"
        ELSE "weak"

assessCompetitivePosition(d) ==
    LET domainRating  == d.backlinks.domainRating
        top10Keywords == d.keywords.distribution.top10.percentage
        overallScore  == FracDiv(Frac(domainRating + top10Keywords, 1), 2)
    IN  IF FracGeq(overallScore, 70) THEN "strong"
        ELSE IF FracGeq(overallScore, 40) THEN "moderate"
        ELSE "weak"

\* ExecutiveSummaryGenerator.generate: the five helpers run in order, the
\* first property read of a missing module throws a TypeError
ExecutiveSummaryGenerator_generate(d) ==
    LET overallHealth == calculateOverallHealth(d)
    IN  IF identifyQuickWinsThrows(d) THEN Raised("TypeError")
        ELSE Returned(
          [ overallHealth       |-> overallHealth,
            currentRanking      |->
                [ keywordsInTop10  |-> d.keywords.distribution.top10.count,
                  estimatedTraffic |-> d.keywords.organicTraffic.estimated,
                  domainAuthority  |-> d.backlinks.domainRating ],
            quickWins           |-> identifyQuickWins(d),
            urgentIssues        |-> identifyUrgentIssues(d),
            trafficStatus       |-> analyzeTrafficStatus(d),
            competitivePosition |-> assessCompetitivePosition(d) ])

(***************************************************************************)
(* RecommendationsEngine                                                   *)
(***************************************************************************)
\* a Recommendation; the description is its template and the strings
\* interpolated into it
Recommendation(priority, category, title, text, args, estimatedImpact, timeframe, resources) ==
    [ priority        |-> priority,
      category        |-> category,
      title           |-> title,
      description     |-> [text |-> text, args |-> args],
      estimatedImpact |-> estimatedImpact,
      timeframe       |-> timeframe,
      resources       |-> resources ]

\* variant of generateTechnicalRecommendations: the LCP rule is an else-branch of
\* the performance rule
generateTechnicalRecommendations_ElseIf(t) ==
    LET r1 == IF t.performanceScore < 60
              THEN << Recommendation("high", "technical", "Improve Page Performance",
                        "Current performance score is {0}/100. Optimize images, minify CSS/JS, and implement caching.",
                        <<ToString(t.performanceScore)>>, "high", "1-2 months",
                        <<"Web developer", "Performance optimization tools", "CDN service">>) >>
              ELSE <<>>
        r2 == IF r1 = <<>> /\ t.coreWebVitals.lcp.score = "poor"
              THEN r1 \o << Recommendation("high", "technical", "Fix Largest Contentful Paint (LCP)",
                        "LCP is {0}, which is poor. Optimize server response times and critical resources.",
                        <<t.coreWebVitals.lcp.value>>, "high", "1-2 weeks",
                        <<"Technical developer", "Server optimization", "Image optimization tools">>) >>
              ELSE r1
        r3 == IF t.coreWebVitals.cls.score = "poor"
              THEN r2 \o << Recommendation("medium", "technical", "Reduce Cumulative Layout Shift (CLS)",
                        "CLS is {0}. Add size attributes to images and reserve space for dynamic content.",
                        <<t.coreWebVitals.cls.value>>, "medium", "1-2 weeks",
                        <<"Frontend developer", "Design review">>) >>
              ELSE r2
    IN  IF t.seoScore < 80
        THEN r3 \o << Recommendation("medium", "technical", "Improve Technical SEO Score",
                        "Address technical SEO issues like meta tags, structured data, and crawlability.",
                        <<>>, "medium", "1-2 months",
                        <<"SEO specialist", "Technical developer">>) >>
        ELSE r3

generateTechnicalRecommendations(t) ==
    LET r1 == IF t.performanceScore < 60
              THEN << Recommendation("high", "technical", "Improve Page Performance",
                        "Current performance score is {0}/100. Optimize images, minify CSS/JS, and implement caching.",
                        <<ToString(t.performanceScore)>>, "high", "1-2 months",
                        <<"Web developer", "Performance optimization tools", "CDN service">>) >>
              ELSE <<>>
        r2 == IF t.coreWebVitals.lcp.score = "poor"
              THEN r1 \o << Recommendation("high", "technical", "Fix Largest Contentful Paint (LCP)",
                        "LCP is {0}, which is poor. Optimize server response times and critical resources.",
                        <<t.coreWebVitals.lcp.value>>, "high", "1-2 weeks",
                        <<"Technical developer", "Server optimization", "Image optimization tools">>) >>
              ELSE r1
        r3 == IF t.coreWebVitals.cls.score = "poor"
              THEN r2 \o << Recommendation("medium", "technical", "Reduce Cumulative Layout Shift (CLS)",
                        "CLS is {0}. Add size attributes to images and reserve space for dynamic content.",
                        <<t.coreWebVitals.cls.value>>, "medium", "1-2 weeks",
                        <<"Frontend developer", "Design review">>) >>
              ELSE r2
    IN  IF t.seoScore < 80
        THEN r3 \o << Recommendation("medium", "technical", "Improve Technical SEO Score",
                        "Address technical SEO issues like meta tags, structured data, and crawlability.",
                        <<>>, "medium", "1-2 months",
                        <<"SEO specialist", "Technical developer">>) >>
        ELSE r3

\* variant of generateContentRecommendations: stale = fresh fires the freshness rule
generateContentRecommendations_StaleInclusive(c) ==
    LET r1 == IF c.metadataCompleteness.titleTags.percentage < 80
              THEN << Recommendation("high", "content", "Add Missing Title Tags",
                        "{0} pages are missing title tags. This directly impacts search rankings.",
                        <<ToString(c.totalPages - c.metadataCompleteness.titleTags.count)>>,
                        "high", "1-2 weeks",
                        <<"Content writer", "SEO specialist">>) >>
              ELSE <<>>
        r2 == IF c.metadataCompleteness.metaDescriptions.percentage < 80
              THEN r1 \o << Recommendation("high", "content", "Write Meta Descriptions",
                        "{0} pages need meta descriptions to improve click-through rates from search results.",
                        <<ToString(c.totalPages - c.metadataCompleteness.metaDescriptions.count)>>,
                        "medium", "1-2 weeks",
                        <<"Content writer", "SEO copywriter">>) >>
              ELSE r1
        r3 == IF c.metadataCompleteness.h1Tags.percentage < 70
              THEN r2 \o << Recommendation("medium", "content", "Add H1 Headings",
                        "Most pages lack proper H1 headings. Add descriptive H1 tags to improve content structure.",
                        <<>>, "medium", "1-2 weeks",
                        <<"Content editor", "Web developer">>) >>
              ELSE r2
        r4 == IF c.contentMetrics.contentFreshness.stale >= c.contentMetrics.contentFreshness.fresh
              THEN r3 \o << Recommendation("medium", "content", "Update Stale Content",
                        "{0} pages haven't been updated in 18+ months. Refresh content regularly.",
                        <<ToString(c.contentMetrics.contentFreshness.stale)>>, "medium", "3+ months",
                        <<"Content team", "Subject matter experts">>) >>
              ELSE r3
    IN  IF c.contentMetrics.averageWordCount < 600
        THEN r4 \o << Recommendation("medium", "content", "Increase Content Depth",
                        "Average word count is {0}. Expand content to 800+ words for better rankings.",
                        <<ToString(c.contentMetrics.averageWordCount)>>, "medium", "1-2 months",
                        <<"Content writers", "Research team">>) >>
        ELSE r4

generateContentRecommendations(c) ==
    LET r1 == IF c.metadataCompleteness.titleTags.percentage < 80
              THEN << Recommendation("high", "content", "Add Missing Title Tags",
                        "{0} pages are missing title tags. This directly impacts search rankings.",
                        <<ToString(c.totalPages - c.metadataCompleteness.titleTags.count)>>,
                        "high", "1-2 weeks",
                        <<"Content writer", "SEO specialist">>) >>
              ELSE <<>>
        r2 == IF c.metadataCompleteness.metaDescriptions.percentage < 80
              THEN r1 \o << Recommendation("high", "content", "Write Meta Descriptions",
                        "{0} pages need meta descriptions to improve click-through rates from search results.",
                        <<ToString(c.totalPages - c.metadataCompleteness.metaDescriptions.count)>>,
                        "medium", "1-2 weeks",
                        <<"Content writer", "SEO copywriter">>) >>
              ELSE r1
        r3 == IF c.metadataCompleteness.h1Tags.percentage < 70
              THEN r2 \o << Recommendation("medium", "content", "Add H1 Headings",
                        "Most pages lack proper H1 headings. Add descriptive H1 tags to improve content structure.",
                        <<>>, "medium", "1-2 weeks",
                        <<"Content editor", "Web developer">>) >>
              ELSE r2
        r4 == IF c.contentMetrics.contentFreshness.stale > c.contentMetrics.contentFreshness.fresh
              THEN r3 \o << Recommendation("medium", "content", "Update Stale Content",
                        "{0} pages haven't been updated in 18+ months. Refresh content regularly.",
                        <<ToString(c.contentMetrics.contentFreshness.stale)>>, "medium", "3+ months",
                        <<"Content team", "Subject matter experts">>) >>
              ELSE r3
    IN  IF c.contentMetrics.averageWordCount < 600
        THEN r4 \o << Recommendation("medium", "content", "Increase Content Depth",
                        "Average word count is {0}. Expand content to 800+ words for better rankings.",
                        <<ToString(c.contentMetrics.averageWordCount)>>, "medium", "1-2 months",
                        <<"Content writers", "Research team">>) >>
        ELSE r4

\* variant of generateKeywordRecommendations: a traffic change of 0 does not fire
generateKeywordRecommendations_TrafficStrict(k) ==
    LET r1 == IF k.distribution.top10.percentage < 20
              THEN << Recommendation("high", "keywords", "Improve Keyword Rankings",
                        "Only {0}% of keywords rank in top 10. Focus on on-page optimization and content quality.",
                        <<ToString(k.distribution.top10.percentage)>>, "high", "3+ months",
                        <<"SEO specialist", "Content team", "Link building">>) >>
              ELSE <<>>
        r2 == IF k.organicTraffic.change < 0
              THEN r1 \o << Recommendation("high", "keywords", "Increase Organic Traffic",
                        "Organic traffic is stagnant. Target new keywords and improve existing content.",
                        <<>>, "high", "3+ months",
                        <<"Keyword research tools", "Content strategy", "SEO specialist">>) >>
              ELSE r1
    IN  IF k.indexedKeywords < 50
        THEN r2 \o << Recommendation("medium", "keywords", "Expand Keyword Coverage",
                        "Only {0} keywords are ranking. Create content for more relevant keywords.",
                        <<ToString(k.indexedKeywords)>>, "medium", "3+ months",
                        <<"Keyword research", "Content creation team">>) >>
        ELSE r2

generateKeywordRecommendations(k) ==
    LET r1 == IF k.distribution.top10.percentage < 20
              THEN << Recommendation("high", "keywords", "Improve Keyword Rankings",
                        "Only {0}% of keywords rank in top 10. Focus on on-page optimization and content quality.",
                        <<ToString(k.distribution.top10.percentage)>>, "high", "3+ months",
                        <<"SEO specialist", "Content team", "Link building">>) >>
              ELSE <<>>
        r2 == IF k.organicTraffic.change <= 0
              THEN r1 \o << Recommendation("high", "keywords", "Increase Organic Traffic",
                        "Organic traffic is stagnant. Target new keywords and improve existing content.",
                        <<>>, "high", "3+ months",
                        <<"Keyword research tools", "Content strategy", "SEO specialist">>) >>
              ELSE r1
    IN  IF k.indexedKeywords < 50
        THEN r2 \o << Recommendation("medium", "keywords", "Expand Keyword Coverage",
                        "Only {0} keywords are ranking. Create content for more relevant keywords.",
                        <<ToString(k.indexedKeywords)>>, "medium", "3+ months",
                        <<"Keyword research", "Content creation team">>) >>
        ELSE r2

\* Math.abs
abs(x) == IF x < 0 THEN -x ELSE x

\* variant of generateBacklinkRecommendations: a growth change of 0 counts as a loss
generateBacklinkRecommendations_LossInclusive(b) ==
    LET r1 == IF b.referringDomains < 100
              THEN << Recommendation("high", "backlinks", "Build More Quality Backlinks",
                        "Only {0} referring domains. Focus on earning high-quality backlinks from relevant sites.",
                        <<ToString(b.referringDomains)>>, "high", "3+ months",
                        <<"Outreach specialist", "Content marketing", "PR team">>) >>
              ELSE <<>>
        r2 == IF b.referringDomainsGrowth.change <= 0
              THEN r1 \o << Recommendation("high", "backlinks", "Address Backlink Loss",
                        "Lost {0} referring domains this month. Investigate and recover lost links.",
                        <<ToString(abs(b.referringDomainsGrowth.change))>>, "medium", "1-2 months",
                        <<"Link building specialist", "Backlink monitoring tools">>) >>
              ELSE r1
    IN  IF b.domainRating < 50
        THEN r2 \o << Recommendation("medium", "backlinks", "Improve Domain Authority",
                        "Domain rating is {0}. Focus on earning high-authority backlinks and improving overall link profile.",
                        <<ToString(b.domainRating)>>, "high", "3+ months",
                        <<"Link building strategy", "High-quality content", "Industry partnerships">>) >>
        ELSE r2

generateBacklinkRecommendations(b) ==
    LET r1 == IF b.referringDomains < 100
              THEN << Recommendation("high", "backlinks", "Build More Quality Backlinks",
                        "Only {0} referring domains. Focus on earning high-quality backlinks from relevant sites.",
                        <<ToString(b.referringDomains)>>, "high", "3+ months",
                        <<"Outreach specialist", "Content marketing", "PR team">>) >>
              ELSE <<>>
        r2 == IF b.referringDomainsGrowth.change < 0
              THEN r1 \o << Recommendation("high", "backlinks", "Address Backlink Loss",
                        "Lost {0} referring domains this month. Investigate and recover lost links.",
                        <<ToString(abs(b.referringDomainsGrowth.change))>>, "medium", "1-2 months",
                        <<"Link building specialist", "Backlink monitoring tools">>) >>
              ELSE r1
    IN  IF b.domainRating < 50
        THEN r2 \o << Recommendation("medium", "backlinks", "Improve Domain Authority",
                        "Domain rating is {0}. Focus on earning high-authority backlinks and improving overall link profile.",
                        <<ToString(b.domainRating)>>, "high", "3+ months",
                        <<"Link building strategy", "High-quality content", "Industry partnerships">>) >>
        ELSE r2

priorityOrder == [high |-> 3, medium |-> 2, low |-> 1]

impactOrder == [high |-> 3, medium |-> 2, low |-> 1]

\* variant of compare: no tie-break on estimatedImpact
compare_PriorityOnly(a, b) ==
    LET priorityDiff == priorityOrder[b.priority] - priorityOrder[a.priority]
    IN  priorityDiff

\* the comparator handed to Array.prototype.sort
compare(a, b) ==
    LET priorityDiff == priorityOrder[b.priority] - priorityOrder[a.priority]
    IN  IF priorityDiff # 0 THEN priorityDiff
        ELSE impactOrder[b.estimatedImpact] - impactOrder[a.estimatedImpact]

\* variant of sortInsert: x goes before the elements it compares equal to
sortInsert_Unstable(s, x) ==
    LET k == Cardinality({i \in 1..Len(s) : compare(s[i], x) < 0})
    IN  SubSeq(s, 1, k) \o <<x>> \o SubSeq(s, k + 1, Len(s))

\* one step of a stable sort: x, which followed every element of the sorted
\* list s in the input, goes after the elements that do not compare greater
sortInsert(s, x) ==
    LET k == Cardinality({i \in 1..Len(s) : compare(s[i], x) <= 0})
    IN  SubSeq(s, 1, k) \o <<x>> \o SubSeq(s, k + 1, Len(s))

\* Array.prototype.sort(compare): stable (ECMAScript 2019)
RECURSIVE sort(_)
sort(s) ==
    IF s = <<>> THEN <<>>
    ELSE sortInsert(sort(SubSeq(s, 1, Len(s) - 1)), s[Len(s)])

prioritizeRecommendations(recs) == sort(recs)

\* the list RecommendationsEngine.generate has pushed before it sorts
collectRecommendations(d) ==
    generateTechnicalRecommendations(d.technicalSeo)
        \o generateContentRecommendations(d.contentAudit)
        \o generateKeywordRecommendations(d.keywords)
        \o generateBacklinkRecommendations(d.backlinks)

\* each generateXRecommendations reads a property of its (missing) argument
RecommendationsEngine_generateThrows(d) == Absent(d) # {}

\* variant of RecommendationsEngine.generate: truncates before it sorts
RecommendationsEngine_generate_SliceFirst(d) ==
    IF RecommendationsEngine_generateThrows(d) THEN Raised("TypeError")
    ELSE Returned(prioritizeRecommendations(slice(collectRecommendations(d), 0, 10)))

\* variant of RecommendationsEngine.generate: keeps seven entries
RecommendationsEngine_generate_TopSeven(d) ==
    IF RecommendationsEngine_generateThrows(d) THEN Raised("TypeError")
    ELSE Returned(slice(prioritizeRecommendations(collectRecommendations(d)), 0, 7))

RecommendationsEngine_generate(d) ==
    IF RecommendationsEngine_generateThrows(d) THEN Raised("TypeError")
    ELSE Returned(slice(prioritizeRecommendations(collectRecommendations(d)), 0, 10))

(***************************************************************************)
(* URL parsing: new URL(url).hostname                                      *)
(*                                                                         *)
(* The WHATWG parser as Node runs it without a base url: surrounding       *)
(* spaces are stripped; the text up to the first ":" must be a scheme;     *)
(* for a special scheme the slashes after it are skipped, the authority    *)
(* runs to the next "/", "\", "?" or "#", the userinfo up to the last "@"   *)
(* and the port after the last ":" are dropped, an empty host or one with  *)
(* a forbidden character is a failure and the host is lower-cased; for any *)
(* other scheme the host is the opaque text after "//", or empty when the  *)
(* url has no "//".  Percent-decoding, IDNA mapping and IP-address         *)
(* normalisation are left out: no url below needs them.                    *)
(***************************************************************************)
UpperCaseLetters ==
    << "A", "B", "C", "D", "E", "F", "G", "H", "I", "J", "K", "L", "M",
       "N", "O", "P", "Q", "R", "S", "T", "U", "V", "W", "X", "Y", "Z" >>

LowerCaseLetters ==
    << "a", "b", "c", "d", "e", "f", "g", "h", "i", "j", "k", "l", "m",
       "n", "o", "p", "q", "r", "s", "t", "u", "v", "w", "x", "y", "z" >>

AsciiDigits == {"0", "1", "2", "3", "4", "5", "6", "7", "8", "9"}

AsciiAlpha == {UpperCaseLetters[i] : i \in 1..26} \cup {LowerCaseLetters[i] : i \in 1..26}

\* the characters a scheme may hold after its first letter
SchemeChars == AsciiAlpha \cup AsciiDigits \cup {"+", "-", "."}

\* characters that make a host invalid
ForbiddenHostChars == {" ", "<", ">", "[", "]", "^", "|"}

\* the schemes whose host is a domain
SpecialSchemes ==
    { <<"h", "t", "t", "p">>, <<"h", "t", "t", "p", "s">>, <<"f", "t", "p">>,
      <<"w", "s">>, <<"w", "s", "s">> }

\* ASCII lower-casing of a string
toLowerCase(str) ==
    [i \in 1..Len(str) |->
        IF \E k \in 1..26 : UpperCaseLetters[k] = str[i]
        THEN LowerCaseLetters[CHOOSE k \in 1..26 : UpperCaseLetters[k] = str[i]]
        ELSE str[i]]

\* position of the first character of str that is in S, Len(str) + 1 if none
firstOf(str, S) ==
    IF \E i \in 1..Len(str) : str[i] \in S
    THEN CHOOSE i \in 1..Len(str) :
            /\ str[i] \in S
            /\ \A j \in 1..(i - 1) : str[j] \notin S
    ELSE Len(str) + 1

\* position of the first character of str that is not in S, Len(str) + 1 if none
firstNotOf(str, S) ==
    IF \E i \in 1..Len(str) : str[i] \notin S
    THEN CHOOSE i \in 1..Len(str) :
            /\ str[i] \notin S
            /\ \A j \in 1..(i - 1) : str[j] \in S
    ELSE Len(str) + 1

\* position of the last character of str that is in S, 0 if none
lastOf(str, S) ==
    IF \E i \in 1..Len(str) : str[i] \in S
    THEN CHOOSE i \in 1..Len(str) :
            /\ str[i] \in S
            /\ \A j \in (i + 1)..Len(str) : str[j] \notin S
    ELSE 0

\* str without the characters of S at its start and at its end
strip(str, S) ==
    LET keep == {i \in 1..Len(str) : str[i] \notin S}
    IN  IF keep = {} THEN <<>>
        ELSE SubSeq(str, CHOOSE i \in keep : \A j \in keep : i <= j,
                         CHOOSE i \in keep : \A j \in keep : i >= j)

\* str from position i on
from(str, i) == SubSeq(str, i, Len(str))

\* variant of hostname: the host of a special scheme keeps its case
hostname_KeepCase(input) ==
    LET text      == strip(input, {" "})
        colon     == firstOf(text, {":"})
        hasScheme == /\ colon <= Len(text)
                     /\ colon > 1
                     /\ text[1] \in AsciiAlpha
                     /\ \A j \in 2..(colon - 1) : text[j] \in SchemeChars
        scheme    == toLowerCase(SubSeq(text, 1, colon - 1))
        rest      == from(text, colon + 1)
    IN  IF ~hasScheme THEN Raised("TypeError: Invalid URL")
        ELSE IF scheme \in SpecialSchemes
        THEN LET start     == firstNotOf(rest, {"/", "\\"})
                 afterSl   == from(rest, start)
                 authority == SubSeq(afterSl, 1, firstOf(afterSl, {"/", "\\", "?", "#"}) - 1)
                 hostPort  == from(authority, lastOf(authority, {"@"}) + 1)
                 portAt    == lastOf(hostPort, {":"})
                 host      == IF portAt = 0 THEN hostPort ELSE SubSeq(hostPort, 1, portAt - 1)
                 port      == IF portAt = 0 THEN <<>> ELSE from(hostPort, portAt + 1)
             IN  IF \/ host = <<>>
                    \/ \E i \in 1..Len(host) : host[i] \in ForbiddenHostChars
                    \/ \E i \in 1..Len(port) : port[i] \notin AsciiDigits
                 THEN Raised("TypeError: Invalid URL")
                 ELSE Returned(host)
        ELSE IF Len(rest) >= 2 /\ rest[1] = "/" /\ rest[2] = "/"
        THEN LET afterSl   == from(rest, 3)
                 authority == SubSeq(afterSl, 1, firstOf(afterSl, {"/", "?", "#"}) - 1)
                 hostPort  == from(authority, lastOf(authority, {"@"}) + 1)
                 portAt    == lastOf(hostPort, {":"})
                 host      == IF portAt = 0 THEN hostPort ELSE SubSeq(hostPort, 1, portAt - 1)
             IN  IF \E i \in 1..Len(host) : host[i] \in ForbiddenHostChars
                 THEN Raised("TypeError: Invalid URL")
                 ELSE Returned(host)
        ELSE Returned(<<>>)

\* new URL(input).hostname
hostname(input) ==
    LET text      == strip(input, {" "})
        colon     == firstOf(text, {":"})
        hasScheme == /\ colon <= Len(text)
                     /\ colon > 1
                     /\ text[1] \in AsciiAlpha
                     /\ \A j \in 2..(colon - 1) : text[j] \in SchemeChars
        scheme    == toLowerCase(SubSeq(text, 1, colon - 1))
        rest      == from(text, colon + 1)
    IN  IF ~hasScheme THEN Raised("TypeError: Invalid URL")
        ELSE IF scheme \in SpecialSchemes
        THEN LET start     == firstNotOf(rest, {"/", "\\"})
                 afterSl   == from(rest, start)
                 authority == SubSeq(afterSl, 1, firstOf(afterSl, {"/", "\\", "?", "#"}) - 1)
                 hostPort  == from(authority, lastOf(authority, {"@"}) + 1)
                 portAt    == lastOf(hostPort, {":"})
                 host      == IF portAt = 0 THEN hostPort ELSE SubSeq(hostPort, 1, portAt - 1)
                 port      == IF portAt = 0 THEN <<>> ELSE from(hostPort, portAt + 1)
             IN  IF \/ host = <<>>
                    \/ \E i \in 1..Len(host) : host[i] \in ForbiddenHostChars
                    \/ \E i \in 1..Len(port) : port[i] \notin AsciiDigits
                 THEN Raised("TypeError: Invalid URL")
                 ELSE Returned(toLowerCase(host))
        ELSE IF Len(rest) >= 2 /\ rest[1] = "/" /\ rest[2] = "/"
        THEN LET afterSl   == from(rest, 3)
                 authority == SubSeq(afterSl, 1, firstOf(afterSl, {"/", "?", "#"}) - 1)
                 hostPort  == from(authority, lastOf(authority, {"@"}) + 1)
                 portAt    == lastOf(hostPort, {":"})
                 host      == IF portAt = 0 THEN hostPort ELSE SubSeq(hostPort, 1, portAt - 1)
             IN  IF \E i \in 1..Len(host) : host[i] \in ForbiddenHostChars
                 THEN Raised("TypeError: Invalid URL")
                 ELSE Returned(host)
        ELSE Returned(<<>>)

\* "https://Sub.Example.com/path?x=1"
UrlMixedCase ==
    << "h", "t", "t", "p", "s", ":", "/", "/", "S", "u", "b", ".", "E", "x",
       "a", "m", "p", "l", "e", ".", "c", "o", "m", "/", "p", "a", "t", "h",
       "?", "x", "=", "1" >>

\* "https://Example.COM:8080/a#frag"
UrlWithPort ==
    << "h", "t", "t", "p", "s", ":", "/", "/", "E", "x", "a", "m", "p", "l",
       "e", ".", "C", "O", "M", ":", "8", "0", "8", "0", "/", "a", "#", "f",
       "r", "a", "g" >>

\* "http://example.com"
UrlPlain ==
    << "h", "t", "t", "p", ":", "/", "/", "e", "x", "a", "m", "p", "l", "e",
       ".", "c", "o", "m" >>

\* "https://admin@Shop.example.org/"
UrlUserInfo ==
    << "h", "t", "t", "p", "s", ":", "/", "/", "a", "d", "m", "i", "n", "@",
       "S", "h", "o", "p", ".", "e", "x", "a", "m", "p", "l", "e", ".", "o",
       "r", "g", "/" >>

\* "example.com"
UrlNoScheme ==
    << "e", "x", "a", "m", "p", "l", "e", ".", "c", "o", "m" >>

\* "https://"
UrlNoHost ==
    << "h", "t", "t", "p", "s", ":", "/", "/" >>

\* "mailto:admin@example.com"
UrlMailto ==
    << "m", "a", "i", "l", "t", "o", ":", "a", "d", "m", "i", "n", "@", "e",
       "x", "a", "m", "p", "l", "e", ".", "c", "o", "m" >>

\* ""
UrlEmpty ==
    <<>>

Urls ==
    { UrlMixedCase,
      UrlWithPort,
      UrlPlain,
      UrlUserInfo,
      UrlNoScheme,
      UrlNoHost,
      UrlMailto,
      UrlEmpty }

(***************************************************************************)
(* HTMLReportTemplate                                                      *)
(*                                                                         *)
(* The document is the sequence of the blocks the template emits inside    *)
(* the report container, each a record of its heading and of the values    *)
(* interpolated into it, followed by the script.  A generateX that returns *)
(* the empty string contributes no block.                                  *)
(***************************************************************************)
\* String.prototype.toUpperCase on the words the template upper-cases
toUpperCase ==
    [ excellent |-> "EXCELLENT", good |-> "GOOD", fair |-> "FAIR", poor |-> "POOR",
      growing |-> "GROWING", stable |-> "STABLE", decreasing |-> "DECREASING",
      high |-> "HIGH", medium |-> "MEDIUM", low |-> "LOW" ]

\* the last three digits of a grouped number
threeDigits(n) ==
    IF n < 10 THEN "00" \o ToString(n)
    ELSE IF n < 100 THEN "0" \o ToString(n)
    ELSE ToString(n)

\* Number.prototype.toLocaleString (en-US) for 0 <= n < 1000000
toLocaleString(n) ==
    IF n < 1000 THEN ToString(n)
    ELSE ToString(n \div 1000) \o "," \o threeDigits(n % 1000)

\* new Date().toISOString() at time t
toISOString(t) == [iso |-> t]

\* new Date(analyzedAt).toLocaleDateString(): the calendar day
toLocaleDateString(analyzedAt) == [day |-> analyzedAt.iso.day]

\* a number interpolated with an explicit plus sign
signed(n) == (IF n > 0 THEN "+" ELSE "") \o ToString(n)

getScoreClass(score) ==
    IF score >= 80 THEN "score-excellent"
    ELSE IF score >= 60 THEN "score-good"
    ELSE IF score >= 40 THEN "score-fair"
    ELSE "score-poor"

mapCWVScore(score) ==
    IF score = "good" THEN "good"
    ELSE IF score = "needs-improvement" THEN "fair"
    ELSE "poor"

getMetadataData == <<75, 60, 40>>

getKeywordData == <<15, 45, 120>>

\* an optional property of an object is set
has(object, property) == property \in DOMAIN object

scoreCard(label, score) ==
    [label |-> label, value |-> ToString(score), bar |-> getScoreClass(score)]

vitalCard(label, vital) ==
    [label |-> label, value |-> vital.value,
     badge |-> mapCWVScore(vital.score), text |-> vital.score]

generateHeader(d) ==
    << [ class |-> "header", title |-> "SEO Analysis Report",
         url |-> d.url, date |-> toLocaleDateString(d.analyzedAt) ] >>

generateExecutiveSummary(d) ==
    IF ~has(d, "executiveSummary") THEN <<>>
    ELSE LET s == d.executiveSummary
         IN  << [ class         |-> "section",
                  title         |-> "Executive Summary",
                  overallHealth |-> [badge |-> s.overallHealth,
                                     text |-> toUpperCase[s.overallHealth]],
                  trafficStatus |-> toUpperCase[s.trafficStatus],
                  metrics       |-> << ToString(s.currentRanking.keywordsInTop10),
                                       toLocaleString(s.currentRanking.estimatedTraffic),
                                       ToString(s.currentRanking.domainAuthority) >>,
                  quickWins     |-> s.quickWins,
                  urgentIssues  |-> s.urgentIssues ] >>

\* the "Technical Issues" block: emitted only for a non-empty list
technicalIssues(issues) ==
    IF Len(issues) > 0
    THEN << [heading |-> "Technical Issues", items |-> issues] >>
    ELSE <<>>

generateTechnicalSEO(d) ==
    LET tech == d.technicalSeo
    IN  << [ class   |-> "section",
             title   |-> "Technical SEO",
             metrics |-> << scoreCard("Performance Score", tech.performanceScore),
                            scoreCard("SEO Score", tech.seoScore),
                            scoreCard("Accessibility Score", tech.accessibilityScore) >>,
             vitals  |-> << vitalCard("Largest Contentful Paint (LCP)", tech.coreWebVitals.lcp),
                            vitalCard("Cumulative Layout Shift (CLS)", tech.coreWebVitals.cls),
                            vitalCard("First Input Delay (FID)", tech.coreWebVitals.fid) >>,
             issues  |-> technicalIssues(tech.issues) ] >>

truncateUrl(u) ==
    IF Len(u) > 50 THEN SubSeq(u, 1, 50) \o <<".", ".", ".">> ELSE u

\* a check mark or a cross
mark(flag) == IF flag THEN "yes" ELSE "no"

\* a row of the "Top Performing Pages" table
topPageRow(page) ==
    [ href      |-> page.url,
      text      |-> truncateUrl(page.url),
      title     |-> IF page.title = "" THEN "Missing" ELSE page.title,
      wordCount |-> ToString(page.wordCount),
      meta      |-> mark(page.hasMetaDescription),
      h1        |-> mark(page.hasH1) ]

\* a row of the "Best Performing Keywords" table
bestKeywordRow(kw) ==
    [ keyword  |-> kw.keyword,
      position |-> ToString(kw.position),
      volume   |-> toLocaleString(kw.volume),
      color    |-> IF kw.change > 0 THEN "green" ELSE "red",
      change   |-> signed(kw.change) ]

\* a row of the "Improvement Opportunities" table
worstKeywordRow(kw) ==
    [ keyword   |-> kw.keyword,
      position  |-> ToString(kw.position),
      volume    |-> toLocaleString(kw.volume),
      potential |-> "High" ]

\* a row of the "Top Referring Domains" table
referringDomainRow(domain) ==
    [ domain       |-> domain.domain,
      backlinks    |-> ToString(domain.backlinks),
      domainRating |-> ToString(domain.domainRating),
      traffic      |-> toLocaleString(domain.traffic) ]

\* a row of the "Anchor Text Distribution" table
anchorTextRow(anchor) ==
    [ text       |-> anchor.text,
      count      |-> ToString(anchor.count),
      percentage |-> ToString(anchor.percentage) \o "%" ]

\* variant of generateContentAudit: the table shows the last ten pages
generateContentAudit_LastTen(d) ==
    LET content == d.contentAudit
        shown   == slice(content.topPages, Len(content.topPages) - Min(10, Len(content.topPages)),
                         Len(content.topPages))
    IN  << [ class   |-> "section",
             title   |-> "Content Audit",
             metrics |-> << ToString(content.totalPages),
                            ToString(content.contentMetrics.averageWordCount),
                            ToString(content.metadataCompleteness.titleTags.percentage) \o "%",
                            ToString(content.metadataCompleteness.metaDescriptions.percentage) \o "%" >>,
             chart   |-> "metadataChart",
             rows    |-> [i \in 1..Len(shown) |-> topPageRow(shown[i])] ] >>

generateContentAudit(d) ==
    LET content == d.contentAudit
        shown   == slice(content.topPages, 0, 10)
    IN  << [ class   |-> "section",
             title   |-> "Content Audit",
             metrics |-> << ToString(content.totalPages),
                            ToString(content.contentMetrics.averageWordCount),
                            ToString(content.metadataCompleteness.titleTags.percentage) \o "%",
                            ToString(content.metadataCompleteness.metaDescriptions.percentage) \o "%" >>,
             chart   |-> "metadataChart",
             rows    |-> [i \in 1..Len(shown) |-> topPageRow(shown[i])] ] >>

generateKeywords(d) ==
    LET keywords == d.keywords
        best     == slice(keywords.performingKeywords.best, 0, 5)
        worst    == slice(keywords.performingKeywords.worst, 0, 5)
    IN  << [ class   |-> "section",
             title   |-> "Keyword Analysis",
             metrics |-> << ToString(keywords.totalKeywords),
                            ToString(keywords.distribution.top10.count),
                            toLocaleString(keywords.organicTraffic.estimated),
                            signed(keywords.organicTraffic.change) \o "%" >>,
             chart   |-> "keywordChart",
             best    |-> [i \in 1..Len(best) |-> bestKeywordRow(best[i])],
             worst   |-> [i \in 1..Len(worst) |-> worstKeywordRow(worst[i])] ] >>

generateBacklinks(d) ==
    LET backlinks == d.backlinks
        domains   == slice(backlinks.topReferringDomains, 0, 10)
        anchors   == slice(backlinks.anchorTexts, 0, 10)
    IN  << [ class   |-> "section",
             title   |-> "Backlink Profile",
             metrics |-> << toLocaleString(backlinks.totalBacklinks),
                            ToString(backlinks.referringDomains),
                            ToString(backlinks.domainRating),
                            signed(backlinks.referringDomainsGrowth.change) >>,
             domains |-> [i \in 1..Len(domains) |-> referringDomainRow(domains[i])],
             anchors |-> [i \in 1..Len(anchors) |-> anchorTextRow(anchors[i])] ] >>

recommendationCard(rec) ==
    [ class       |-> "priority-" \o rec.priority,
      title       |-> rec.title,
      description |-> rec.description,
      badge       |-> IF rec.priority = "high" THEN "poor"
                      ELSE IF rec.priority = "medium" THEN "fair" ELSE "good",
      priority    |-> toUpperCase[rec.priority] \o " PRIORITY",
      timeframe   |-> rec.timeframe,
      impact      |-> toUpperCase[rec.estimatedImpact] \o " Impact",
      resources   |-> rec.resources ]

\* variant of generateRecommendations: an empty list is rendered as no section
generateRecommendations_SkipEmpty(d) ==
    IF ~has(d, "recommendations") \/ d.recommendations = <<>> THEN <<>>
    ELSE << [ class |-> "section",
              title |-> "Recommendations & Roadmap",
              cards |-> [i \in 1..Len(d.recommendations) |->
                            recommendationCard(d.recommendations[i])] ] >>

\* `!data.recommendations` is true for a missing property and false for every
\* array, the empty one included
generateRecommendations(d) ==
    IF ~has(d, "recommendations") THEN <<>>
    ELSE << [ class |-> "section",
              title |-> "Recommendations & Roadmap",
              cards |-> [i \in 1..Len(d.recommendations) |->
                            recommendationCard(d.recommendations[i])] ] >>

generateFooter(d) ==
    << [ class |-> "footer", date |-> toLocaleDateString(d.analyzedAt),
         covers |-> "Technical SEO, Content Audit, Keywords, and Backlink Analysis" ] >>

getJavaScript ==
    << [ chart |-> "metadataChart", type |-> "doughnut",
         labels |-> <<"Title Tags", "Meta Descriptions", "H1 Tags">>,
         data |-> getMetadataData ],
       [ chart |-> "keywordChart", type |-> "bar",
         labels |-> <<"Top 3", "Top 10", "Top 50">>,
         data |-> getKeywordData ] >>

\* the section generators read properties of each module
HTMLReportTemplate_generateThrows(d) == Absent(d) # {}

\* variant of HTMLReportTemplate.generate: recommendations before backlinks
HTMLReportTemplate_generate_Reordered(d) ==
    IF HTMLReportTemplate_generateThrows(d) THEN Raised("TypeError")
    ELSE Returned([ title  |-> <<"SEO Report - ", d.domain>>,
                    body   |-> generateHeader(d)
                                \o generateExecutiveSummary(d)
                                \o generateTechnicalSEO(d)
                                \o generateContentAudit(d)
                                \o generateKeywords(d)
                                \o generateRecommendations(d)
                                \o generateBacklinks(d)
                                \o generateFooter(d),
                    script |-> getJavaScript ])

HTMLReportTemplate_generate(d) ==
    IF HTMLReportTemplate_generateThrows(d) THEN Raised("TypeError")
    ELSE Returned([ title  |-> <<"SEO Report - ", d.domain>>,
                    body   |-> generateHeader(d)
                                \o generateExecutiveSummary(d)
                                \o generateTechnicalSEO(d)
                                \o generateContentAudit(d)
                                \o generateKeywords(d)
                                \o generateBacklinks(d)
                                \o generateRecommendations(d)
                                \o generateFooter(d),
                    script |-> getJavaScript ])

(***************************************************************************)
(* SEOReportGenerator                                                      *)
(***************************************************************************)
\* the SEOReportData object without its optional properties
SEOReportData(u, domain, analyzedAt, modules) ==
    [ url          |-> u,
      domain       |-> domain,
      analyzedAt   |-> analyzedAt,
      technicalSeo |-> modules.technicalSeo,
      contentAudit |-> modules.contentAudit,
      keywords     |-> modules.keywords,
      backlinks    |-> modules.backlinks ]

\* the longest time one step of the assembly is given to take, in milliseconds
MaxElapsed == 1

\* the time a step takes: none, or the longest
Delays == {0, MaxElapsed}

MsPerDay == 86400000

\* the clock after the given milliseconds have passed
elapse(t, ms) ==
    IF t.ms + ms >= MsPerDay
    THEN [day |-> t.day + 1, ms |-> t.ms + ms - MsPerDay]
    ELSE [day |-> t.day, ms |-> t.ms + ms]

\* the first time is not later than the second
notAfter(a, b) == a.day < b.day \/ (a.day = b.day /\ a.ms <= b.ms)

\* console.log(line), when the statement is reached
Log(reached, line, at) == IF reached THEN <<[line |-> line, at |-> at]>> ELSE <<>>

\* what may happen to the conversion: puppeteer.launch throws, a step on the
\* launched browser throws, or page.pdf returns the buffer
PdfFates == {"launch fails", "conversion fails", "converted"}

\* generatePDF without the finally block: a browser that failed is left open
generatePDF_LeaveOpen(document, fate) ==
    IF fate = "converted"
    THEN [outcome |-> Returned([pdfOf |-> document]), browser |-> "closed"]
    ELSE IF fate = "conversion fails"
    THEN [outcome |-> Raised("PDF generation failed"), browser |-> "open"]
    ELSE [outcome |-> Raised("PDF generation failed"), browser |-> "none"]

\* generatePDF: the conversion returns the buffer, or any failure of the
\* browser is rethrown as "PDF generation failed"; the finally block closes
\* the browser whenever one was launched
generatePDF(document, fate) ==
    IF fate = "converted"
    THEN [outcome |-> Returned([pdfOf |-> document]), browser |-> "closed"]
    ELSE IF fate = "conversion fails"
    THEN [outcome |-> Raised("PDF generation failed"), browser |-> "closed"]
    ELSE [outcome |-> Raised("PDF generation failed"), browser |-> "none"]

\* the first failure among the steps, in the order they run
firstRaised(steps) ==
    LET failed == {i \in 1..Len(steps) : steps[i].status = "raised"}
    IN  IF failed = {} THEN NotCalled
        ELSE steps[CHOOSE i \in failed : \A j \in failed : i <= j]

\* the time stamp taken when generateCompleteReport is entered
stampTime_AtCall(called, summarising, recommending) == called

\* the value of new Date() when the report data is compiled: after both
\* generators have run
stampTime(called, summarising, recommending) ==
    elapse(elapse(called, summarising), recommending)

\* a step that is not taken takes no time
timeOf(taken) == IF taken THEN Delays ELSE {0}

\* the assembly gets past the named generator: the steps before it returned
compiles(u, modules, step) ==
    /\ hostname(u).status = "returned"
    /\ ExecutiveSummaryGenerator_generate(modules).status = "returned"
    /\ step = "recommendations" => RecommendationsEngine_generate(modules).status = "returned"

\* generateCompleteReport(url, data, {format}) called at the time of the
\* clock: the steps in the order they run, each recorded in its variable, with
\* the time each one takes.  A step after a failed one is not taken, and the
\* first failure is the outcome of the call.  The console lines that dump the
\* input are left out.
generateCompleteReport(format) ==
    \E summarising \in timeOf(hostname(url).status = "returned"),
       recommending \in timeOf(compiles(url, data, "summary")),
       rendering \in timeOf(compiles(url, data, "recommendations")),
       converting \in timeOf(format = "pdf" /\ compiles(url, data, "recommendations")),
       fate \in IF format = "pdf" THEN PdfFates ELSE {"not asked"} :
        LET summarised  == elapse(clock, summarising)
            stamped     == stampTime(clock, summarising, recommending)
            rendered    == elapse(stamped, rendering)
            converted   == elapse(rendered, converting)
        IN
        /\ summary' = IF hostname(url).status = "returned"
                      THEN ExecutiveSummaryGenerator_generate(data)
                      ELSE NotCalled
        /\ recommendations' = IF summary'.status = "returned"
                              THEN RecommendationsEngine_generate(data)
                              ELSE NotCalled
        /\ generated' = IF recommendations'.status = "returned"
                        THEN collectRecommendations(data)
                        ELSE <<>>
        /\ reportData' = IF recommendations'.status = "returned"
                         THEN SEOReportData(url, hostname(url).value, toISOString(stamped), data)
                                @@ [ executiveSummary |-> summary'.value,
                                     recommendations  |-> recommendations'.value ]
                         ELSE Undefined
        /\ html' = IF reportData' # Undefined
                   THEN HTMLReportTemplate_generate(reportData')
                   ELSE NotCalled
        /\ LET pdf     == IF html'.status = "returned" /\ format = "pdf"
                          THEN generatePDF(html'.value, fate)
                          ELSE [outcome |-> NotCalled, browser |-> browser]
               failure == firstRaised(<<hostname(url), summary', recommendations', html',
                                        pdf.outcome>>)
           IN  /\ browser' = pdf.browser
               /\ result' = IF failure # NotCalled THEN failure
                            ELSE IF format = "pdf"
                            THEN Returned([data |-> reportData', html |-> html'.value,
                                           pdf |-> pdf.outcome.value])
                            ELSE Returned([data |-> reportData', html |-> html'.value])
        /\ clock' = IF summary' = NotCalled THEN clock
                    ELSE IF recommendations' = NotCalled THEN summarised
                    ELSE IF html' = NotCalled THEN stamped
                    ELSE IF html'.status = "returned" /\ format = "pdf" THEN converted
                    ELSE rendered
        /\ console' = console
                        \o Log(TRUE, "Starting complete SEO report generation...", clock)
                        \o Log(summary' # NotCalled, "Generating executive summary...", clock)
                        \o Log(recommendations' # NotCalled, "Generating recommendations...",
                               summarised)
                        \o Log(html' # NotCalled, "Generating HTML report...", stamped)
                        \o Log(html'.status = "returned" /\ format = "pdf",
                               "Converting to PDF...", rendered)
                        \o Log(result'.status = "returned",
                               "SEO report generation completed!", clock')

(***************************************************************************)
(* The generate-report routes                                              *)
(***************************************************************************)
Formats == {"pdf", "html"}

\* NextResponse.json(body, {status: code})
Json(code, body) == [code |-> code, body |-> body]

\* `!requestData.url`: the url is missing or the empty string
urlMissing(u) == u = <<>>

\* variant of moduleMissing: backlinks is not validated
moduleMissing_NoBacklinks(d) ==
    \/ d.technicalSeo = Undefined
    \/ d.contentAudit = Undefined
    \/ d.keywords = Undefined

\* `!technicalSeo || !contentAudit || !keywords || !backlinks`
moduleMissing(d) ==
    \/ d.technicalSeo = Undefined
    \/ d.contentAudit = Undefined
    \/ d.keywords = Undefined
    \/ d.backlinks = Undefined

\* variant of MissingModulesError: no module is named
MissingModulesError_Unnamed == "All module data is required"

\* the message of the module validation: one literal, whatever is missing
MissingModulesError ==
    "All module data is required (technicalSeo, contentAudit, keywords, backlinks)"

\* the body of the catch block
failureBody(error, development) ==
    IF development
    THEN [error |-> "Failed to generate report", message |-> error.error,
          stack |-> "stack"]
    ELSE [error |-> "Failed to generate report", message |-> error.error]

\* the body of the success response
successBody(format, res) ==
    LET common == [ success     |-> TRUE,
                    reportData  |-> res.data,
                    htmlContent |-> res.html,
                    metadata    |-> [ generatedAt      |-> res.data.analyzedAt,
                                      domain           |-> hostname(res.data.url).value,
                                      url              |-> res.data.url,
                                      executiveSummary |-> res.data.executiveSummary,
                                      recommendations  |-> res.data.recommendations ] ]
    IN  IF format = "pdf" THEN common @@ [pdfGenerated |-> has(res, "pdf")]
        ELSE common

(***************************************************************************)
(* Operations                                                              *)
(***************************************************************************)
\* a caller invokes ExecutiveSummaryGenerator.generate(data)
Synthesize ==
    /\ summary = NotCalled
    /\ summary' = ExecutiveSummaryGenerator_generate(data)
    /\ UNCHANGED <<data, generated, recommendations,
                   url, clock, reportData, html, result, response,
                   console, browser, serviceVars>>

\* a caller invokes RecommendationsEngine.generate(data)
Recommend ==
    /\ recommendations = NotCalled
    /\ recommendations' = RecommendationsEngine_generate(data)
    /\ generated' = IF RecommendationsEngine_generateThrows(data) THEN <<>>
                    ELSE collectRecommendations(data)
    /\ UNCHANGED <<data, summary, url, clock, reportData, html, result, response,
                   console, browser, serviceVars>>

Next == Synthesize \/ Recommend

\* a caller invokes HTMLReportTemplate.generate(reportData)
Render ==
    /\ html = NotCalled
    /\ reportData # Undefined
    /\ html' = HTMLReportTemplate_generate(reportData)
    /\ UNCHANGED <<data, summary, generated, recommendations,
                   url, clock, reportData, result, response,
                   console, browser, serviceVars>>

NextRender == Render

\* a caller invokes SEOReportGenerator.generateCompleteReport(url, data, {format})
Assemble(format) ==
    /\ result = NotCalled
    /\ response = NotCalled
    /\ generateCompleteReport(format)
    /\ UNCHANGED <<data, url, response, serviceVars>>

\* POST /api/generate-report (format "pdf") and its HTML twin (format "html")
\* with the request body {url, ...data}
Post(format) ==
    /\ result = NotCalled
    /\ response = NotCalled
    /\ IF urlMissing(url)
       THEN /\ response' = Json(400, [error |-> "URL is required in request data"])
            /\ UNCHANGED <<summary, generated, recommendations, reportData, html, result,
                           clock, console, browser>>
       ELSE IF moduleMissing(data)
       THEN /\ response' = Json(400, [error |-> MissingModulesError])
            /\ UNCHANGED <<summary, generated, recommendations, reportData, html, result,
                           clock, console, browser>>
       ELSE /\ generateCompleteReport(format)
            /\ \E development \in BOOLEAN :
                  response' = IF result'.status = "returned"
                              THEN Json(200, successBody(format, result'.value))
                              ELSE Json(500, failureBody(result', development))
    /\ UNCHANGED <<data, url, serviceVars>>

NextReport ==
    \/ \E format \in Formats : Assemble(format)
    \/ \E format \in Formats : Post(format)

(***************************************************************************)
(* Repeated invocations of the two generators                              *)
(***************************************************************************)
\* variant of newList: the list of the previous call is used again
newList_Shared(previous) == previous

\* const recommendations = []: every call of RecommendationsEngine.generate
\* starts from a list of its own, whatever an earlier call has pushed
newList(previous) == <<>>

\* a caller invokes ExecutiveSummaryGenerator.generate for the i-th input
SynthesizeFor(i) ==
    /\ invocations' = [invocations EXCEPT
                          ![i].summary = ExecutiveSummaryGenerator_generate(invocations[i].data)]
    /\ UNCHANGED <<data, summary, generated, recommendations, url, clock, reportData, html,
                   result, response, console, browser, pc, requests, keys, contacted,
                   keywordsResponse>>

\* a caller invokes RecommendationsEngine.generate for the i-th input: the
\* rules push onto the list of the call, which is sorted and cut
RecommendFor(i) ==
    /\ generated' = IF RecommendationsEngine_generateThrows(invocations[i].data)
                    THEN newList(generated)
                    ELSE newList(generated) \o collectRecommendations(invocations[i].data)
    /\ invocations' = [invocations EXCEPT
                          ![i].recommendations =
                              IF RecommendationsEngine_generateThrows(invocations[i].data)
                              THEN Raised("TypeError")
                              ELSE Returned(slice(prioritizeRecommendations(generated'), 0, 10))]
    /\ UNCHANGED <<data, summary, recommendations, url, clock, reportData, html,
                   result, response, console, browser, pc, requests, keys, contacted,
                   keywordsResponse>>

\* time passes between two calls
Tick ==
    /\ clock.ms = 0
    /\ clock' = [clock EXCEPT !.ms = MsPerDay - 1]
    /\ UNCHANGED <<data, summary, generated, recommendations, url, reportData, html,
                   result, response, console, browser, serviceVars>>

NextRepeated ==
    \/ \E i \in 1..Len(invocations) : SynthesizeFor(i)
    \/ \E i \in 1..Len(invocations) : RecommendFor(i)
    \/ Tick

(***************************************************************************)
(* The analyze-and-report route                                            *)
(***************************************************************************)
\* the label of each provider in the details of a failure
ModuleLabel ==
    [ technicalSeo |-> "Technical SEO", contentAudit |-> "Content Audit",
      keywords |-> "Keywords", backlinks |-> "Backlinks" ]

\* the providers in the order of the Promise.all array
ModuleOrder == <<"technicalSeo", "contentAudit", "keywords", "backlinks">>

\* how a request to a provider may settle: fulfilled with an ok response,
\* fulfilled with a response that is not ok, or rejected
Settlements == {"ok", "failed", "rejected"}

\* the status of a response that is not ok
FailedStatus == "500"

\* the errors array: one entry per response that is not ok, in provider order
failedDetails(settled) ==
    LET failed == SelectSeq(ModuleOrder, LAMBDA m : settled[m] = "failed")
    IN  [i \in 1..Len(failed) |-> ModuleLabel[failed[i]] \o ": " \o FailedStatus]

\* the body of the catch block of the route
analysisFailureBody(message, development) ==
    IF development
    THEN [error |-> "Failed to complete analysis and generate report",
          message |-> message, stack |-> "stack"]
    ELSE [error |-> "Failed to complete analysis and generate report",
          message |-> message]

\* the body of the success response of the route
analysisSuccessBody(u, modules, res) ==
    [ success    |-> TRUE,
      url        |-> u,
      domain     |-> hostname(u).value,
      analyzedAt |-> res.data.analyzedAt,
      modules    |-> [m \in ModuleNames |-> [data |-> modules[m]]],
      report     |-> [ data             |-> res.data,
                       htmlContent      |-> res.html,
                       pdfGenerated     |-> has(res, "pdf"),
                       executiveSummary |-> res.data.executiveSummary,
                       recommendations  |-> res.data.recommendations ] ]

\* Promise.all rejects as soon as one of its promises rejects
allSettledOrRejected(settled) ==
    \E m \in ModuleNames : settled[m] = "rejected"

\* POST /api/analyze-and-report up to its await: the url is checked and the
\* four requests are issued, none awaited before the last is issued
StartAnalysis ==
    /\ pc = "idle"
    /\ response = NotCalled
    /\ result = NotCalled
    /\ IF urlMissing(url)
       THEN /\ response' = Json(400, [error |-> "URL is required"])
            /\ pc' = "done"
            /\ UNCHANGED requests
       ELSE /\ requests' = [m \in ModuleNames |-> "pending"]
            /\ pc' = "awaiting"
            /\ UNCHANGED response
    /\ UNCHANGED <<data, summary, generated, recommendations, url, clock, reportData, html,
                   result, console, browser, keys, contacted, keywordsResponse, invocations>>

\* a request settles; when that settles the Promise.all the handler awaits,
\* the handler runs to its response: the catch block after a rejection, the
\* failure of the modules when a response is not ok, the assembly of the
\* report from the data of the four responses otherwise
Settle(m, how) ==
    /\ requests[m] = "pending"
    /\ requests' = [requests EXCEPT ![m] = how]
    /\ IF pc = "awaiting" /\ allSettledOrRejected(requests')
       THEN /\ pc' = "done"
            /\ \E development \in BOOLEAN :
                  response' = Json(500, analysisFailureBody("fetch failed", development))
            /\ UNCHANGED <<summary, generated, recommendations, reportData, html, result,
                           clock, console, browser>>
       ELSE IF pc = "awaiting" /\ \A n \in ModuleNames : requests'[n] # "pending"
       THEN /\ pc' = "done"
            /\ IF \E n \in ModuleNames : requests'[n] = "failed"
               THEN /\ response' = Json(500, [error   |-> "One or more analysis modules failed",
                                              details |-> failedDetails(requests')])
                    /\ UNCHANGED <<summary, generated, recommendations, reportData, html,
                                   result, clock, console, browser>>
               ELSE /\ generateCompleteReport("pdf")
                    /\ \E development \in BOOLEAN :
                          response' = IF result'.status = "returned"
                                      THEN Json(200, analysisSuccessBody(url, data, result'.value))
                                      ELSE Json(500, analysisFailureBody(result'.error,
                                                                         development))
       ELSE UNCHANGED <<pc, response, summary, generated, recommendations, reportData, html,
                        result, clock, console, browser>>
    /\ UNCHANGED <<data, url, keys, contacted, keywordsResponse, invocations>>

NextAnalysis ==
    \/ StartAnalysis
    \/ \E m \in ModuleNames, how \in Settlements : Settle(m, how)

(***************************************************************************)
(* The keywords endpoint: POST /api/analyze/keywords                       *)
(*                                                                         *)
(* Text is a sequence of characters.  The percentage of a distribution     *)
(* bucket is a JavaScript number that may be NaN: Num(n) or NaN.           *)
(***************************************************************************)
Num(n) == [number |-> n]

NaN == [nan |-> TRUE]

\* the JSON value null
Null == [null |-> TRUE]

\* the SERP providers in the order fetchKeywordData tries them
ProviderOrder == <<"ScaleSerp", "SerpApi", "ValueSerp">>

Providers == {ProviderOrder[i] : i \in 1..Len(ProviderOrder)}

\* the characters \W does not match
WordChars == AsciiAlpha \cup AsciiDigits \cup {"_"}

commonWords ==
    { <<"t", "h", "e">>, <<"a", "n", "d">>, <<"o", "r">>,
      <<"b", "u", "t">>, <<"i", "n">>, <<"o", "n">>,
      <<"a", "t">>, <<"t", "o">>, <<"f", "o", "r">>,
      <<"o", "f">>, <<"w", "i", "t", "h">>, <<"b", "y">> }

\* the topics generateKeyword cycles through
KeywordTopics ==
    << <<"s", "e", "r", "v", "i", "c", "e", "s">>,
       <<"s", "o", "l", "u", "t", "i", "o", "n", "s">>,
       <<"p", "r", "o", "d", "u", "c", "t", "s">>,
       <<"p", "r", "i", "c", "i", "n", "g">>,
       <<"c", "o", "n", "t", "a", "c", "t">>,
       <<"a", "b", "o", "u", "t">>,
       <<"b", "l", "o", "g">>,
       <<"h", "e", "l", "p">>,
       <<"s", "u", "p", "p", "o", "r", "t">>,
       <<"l", "o", "g", "i", "n">> >>

\* the pages generateKeyword cycles through
KeywordPages == <<KeywordTopics[1], KeywordTopics[2], KeywordTopics[3]>>

\* the positions of str at which a run of word characters starts
wordStarts(str) ==
    {i \in 1..Len(str) : str[i] \in WordChars /\ (i = 1 \/ str[i - 1] \notin WordChars)}

\* String.prototype.split(/\W+/) without the empty strings it yields at the
\* ends, which the length filter of the caller removes
splitWords(str) ==
    [k \in 1..Cardinality(wordStarts(str)) |->
        LET start == CHOOSE i \in wordStarts(str) :
                        Cardinality({j \in wordStarts(str) : j < i}) = k - 1
        IN  SubSeq(str, start, start + firstNotOf(from(str, start), WordChars) - 2)]

\* Array.prototype.join(" ")
RECURSIVE join(_)
join(words) ==
    IF words = <<>> THEN <<>>
    ELSE IF Len(words) = 1 THEN words[1]
    ELSE words[1] \o <<" ">> \o join(Tail(words))

\* domain.split('.')[0]
domainName(domain) == SubSeq(domain, 1, firstOf(domain, {"."}) - 1)

\* the member of a set of one value
only(S) == CHOOSE x \in S : TRUE

\* the words of a lower-cased title that make up the keyword
titleWords(lowered) ==
    slice(SelectSeq(splitWords(lowered),
                    LAMBDA word : Len(word) > 2 /\ word \notin commonWords),
          0, 3)

extractKeywordFromTitle(title, domain) ==
    only({ IF Len(words) > 0 THEN domainName(domain) \o <<" ">> \o join(words)
           ELSE domainName(domain) \o <<" ">> \o KeywordTopics[1] :
           words \in {titleWords(lowered) : lowered \in {toLowerCase(title)}} })

\* Math.floor(Math.random() * n): the draw is the lowest or the highest value
\* Math.random can return
randomBelow(draw, n) == IF draw = "lowest" THEN 0 ELSE n - 1

Draws == {"lowest", "highest"}

\* Array.prototype.slice(-n)
sliceLast(s, n) == SubSeq(s, IF Len(s) > n THEN Len(s) - n + 1 ELSE 1, Len(s))

\* Math.round((count / total) * 100): NaN when both are zero
roundedPercentage(count, total) ==
    IF total = 0 THEN NaN
    ELSE Num((200 * count + total) \div (2 * total))

\* one bucket of the distribution
bucket(results, k) ==
    [ count      |-> Len(slice(results, 0, k)),
      percentage |-> roundedPercentage(Len(slice(results, 0, k)), Len(results)) ]

\* the range of a Math.floor(Math.random() * size) + base
Spread(size, base) == [size |-> size, base |-> base]

\* one entry of a keyword list of parseScaleServData
rankedKeyword(organic, domain, position, draw, volume, difficulty, change) ==
    [ keyword    |-> extractKeywordFromTitle(organic.title, domain),
      position   |-> position,
      volume     |-> randomBelow(draw, volume.size) + volume.base,
      difficulty |-> randomBelow(draw, difficulty.size) + difficulty.base,
      url        |-> organic.link,
      change     |-> randomBelow(draw, change.size) + change.base ]

parseScaleServData(body, domain, draw) ==
    LET results == IF has(body, "organic_results") THEN body.organic_results ELSE <<>>
        best    == slice(results, 0, 5)
        worst   == sliceLast(results, 5)
        new     == slice(results, 5, 8)
        opportunities == slice(results, 10, 20)
    IN  [ totalKeywords   |-> Len(results) * 3,
          indexedKeywords |-> Len(results),
          distribution    |-> [ top3  |-> bucket(results, 3),
                                top10 |-> bucket(results, 10),
                                top50 |-> bucket(results, 50) ],
          performingKeywords |->
              [ best  |-> [i \in 1..Len(best) |->
                              rankedKeyword(best[i], domain, i, draw,
                                            Spread(5000, 100), Spread(50, 30), Spread(10, -5))],
                worst |-> [i \in 1..Len(worst) |->
                              rankedKeyword(worst[i], domain, Len(results) - 5 + i, draw,
                                            Spread(1000, 50), Spread(70, 20), Spread(10, -8))],
                new   |-> [i \in 1..Len(new) |->
                              rankedKeyword(new[i], domain, i + 5, draw,
                                            Spread(2000, 100), Spread(60, 25), Spread(15, 1))] ],
          opportunities   |-> [i \in 1..Len(opportunities) |->
                                  rankedKeyword(opportunities[i], domain, i + 10, draw,
                                                Spread(3000, 200), Spread(40, 30), Spread(20, -10))],
          organicTraffic  |-> [ estimated |-> Len(results) * 150,
                                change    |-> randomBelow(draw, 40) - 20 ] ]

parseSerpApiData(body, domain, draw) ==
    LET results == IF has(body, "organic_results") THEN body.organic_results ELSE <<>>
    IN  parseScaleServData([organic_results |-> results], domain, draw)

parseValueSerpData(body, domain, draw) ==
    LET results == IF has(body, "organic_results") THEN body.organic_results ELSE <<>>
    IN  parseScaleServData([organic_results |-> results], domain, draw)

\* the parser fetchKeywordData applies to the response of each provider
parseFor(provider, body, domain, draw) ==
    IF provider = "ScaleSerp" THEN parseScaleServData(body, domain, draw)
    ELSE IF provider = "SerpApi" THEN parseSerpApiData(body, domain, draw)
    ELSE parseValueSerpData(body, domain, draw)

\* the fraction (x - Math.floor(x)) of the seeded generator: one value per
\* domain, the same for every draw
Fractions == {Frac(0, 1), Frac(1, 2), Frac(999, 1000)}

\* random(min, max) of generateKeywordFallbackData
random(f, min, max) == (f.n * (max - min + 1)) \div f.d + min

generateKeyword(u, domain, f, position, index) ==
    [ keyword    |-> domainName(domain) \o <<" ">> \o KeywordTopics[(index % 10) + 1],
      position   |-> position,
      volume     |-> random(f, 100, 5000),
      difficulty |-> random(f, 20, 90),
      url        |-> u \o <<"/">> \o KeywordPages[(index % 3) + 1],
      change     |-> random(f, -10, 15) ]

\* generateKeywordFallbackData(url), given the hostname of the url and the
\* fraction of its seed
generateKeywordFallbackData(u, domain, f) ==
    LET totalKeywords   == random(f, 100, 500)
        indexedKeywords == (totalKeywords * 85) \div 100
        top3Count       == (indexedKeywords * random(f, 5, 15)) \div 100
        top10Count      == (indexedKeywords * random(f, 15, 30)) \div 100
        top50Count      == (indexedKeywords * random(f, 40, 65)) \div 100
    IN  [ totalKeywords   |-> totalKeywords,
          indexedKeywords |-> indexedKeywords,
          distribution    |->
              [ top3  |-> [ count |-> top3Count,
                            percentage |-> roundedPercentage(top3Count, indexedKeywords) ],
                top10 |-> [ count |-> top10Count,
                            percentage |-> roundedPercentage(top10Count, indexedKeywords) ],
                top50 |-> [ count |-> top50Count,
                            percentage |-> roundedPercentage(top50Count, indexedKeywords) ] ],
          performingKeywords |->
              [ best  |-> [i \in 1..5 |-> generateKeyword(u, domain, f, random(f, 1, 5), i - 1)],
                worst |-> [i \in 1..5 |->
                              generateKeyword(u, domain, f, random(f, 51, 100), i - 1)],
                new   |-> [i \in 1..3 |->
                              generateKeyword(u, domain, f, random(f, 15, 40), i - 1)] ],
          opportunities   |-> [i \in 1..10 |->
                                  generateKeyword(u, domain, f, random(f, 11, 30), i - 1)],
          organicTraffic  |-> [ estimated |-> random(f, 1000, 10000),
                                change    |-> random(f, -20, 40) ] ]

\* what fetchKeywordData returns when it has no data
NoKeywordData == [data |-> Null, contacted |-> <<>>]

\* one configured provider of fetchKeywordData: a request error ends the
\* function in its catch block, a response that is not ok falls through to
\* what follows, an ok response is parsed and returned
attempt(provider, upstream, domain, draw, otherwise) ==
    IF upstream[provider].kind = "error"
    THEN [ data      |-> Null,
           contacted |-> <<[provider |-> provider, outcome |-> "error"]>> ]
    ELSE IF upstream[provider].kind = "not ok"
    THEN [ data      |-> otherwise.data,
           contacted |-> <<[provider |-> provider, outcome |-> "not ok"]>>
                            \o otherwise.contacted ]
    ELSE [ data      |-> parseFor(provider, upstream[provider].body, domain, draw),
           contacted |-> <<[provider |-> provider, outcome |-> "ok"]>> ]

\* fetchKeywordData(url), given the hostname of the url: the data it
\* returns, null when it has none, and the providers it contacted
fetchKeywordData(domain, configured, upstream, draw) ==
    IF configured = {} THEN NoKeywordData
    ELSE LET valueSerp == IF "ValueSerp" \in configured
                          THEN attempt("ValueSerp", upstream, domain, draw, NoKeywordData)
                          ELSE NoKeywordData
             serpApi   == IF "SerpApi" \in configured
                          THEN attempt("SerpApi", upstream, domain, draw, valueSerp)
                          ELSE valueSerp
         IN  IF "ScaleSerp" \in configured
             THEN attempt("ScaleSerp", upstream, domain, draw, serpApi)
             ELSE serpApi

\* JSON.stringify of a number: NaN is written as null
jsonNumber(x) == IF x = NaN THEN Null ELSE x

\* the body NextResponse.json(result) sends
keywordsJson(res) ==
    [res EXCEPT !.distribution.top3.percentage  = jsonNumber(@),
                !.distribution.top10.percentage = jsonNumber(@),
                !.distribution.top50.percentage = jsonNumber(@)]

\* sample titles of organic results
ResultTitles ==
    << <<"T", "h", "e", " ", "B", "e", "s", "t", " ", "S", "E", "O", " ", "T", "o", "o", "l", "s">>,
       <<"O", "f", " ", "I", "t">>,
       <<"P", "r", "i", "c", "i", "n", "g", " ", "&", " ", "P", "l", "a", "n", "s", " ", "2", "0", "2", "4">> >>

\* the i-th organic result of a provider's response
OrganicResult(u, i) ==
    [ title |-> ResultTitles[(i % Len(ResultTitles)) + 1],
      link  |-> u \o <<"/", "r">> \o [k \in 1..i |-> "x"] ]

\* the numbers of organic results in a response
ResultCounts == {0, 1, 12}

\* what a provider may do with a request: the request fails, the response is
\* not ok, or it is ok with a body that has some organic results or none of
\* that name
UpstreamOutcomes(u) ==
    { [kind |-> "error"], [kind |-> "not ok"], [kind |-> "ok", body |-> <<>>] }
        \cup { [kind |-> "ok",
                body |-> [organic_results |-> [i \in 1..n |-> OrganicResult(u, i)]]] :
               n \in ResultCounts }

\* a provider that is not contacted has no outcome
outcomesOf(asked, u) == IF asked THEN UpstreamOutcomes(u) ELSE {[kind |-> "not asked"]}

\* after this outcome fetchKeywordData goes on to the providers that follow
passes(outcome) == outcome.kind \in {"not asked", "not ok"}

\* POST /api/analyze/keywords with the body {url}
PostKeywords ==
    /\ keywordsResponse = NotCalled
    /\ IF urlMissing(url)
       THEN /\ keywordsResponse' = Json(400, [error |-> "URL is required"])
            /\ UNCHANGED contacted
       ELSE IF hostname(url).status = "raised"
       THEN /\ keywordsResponse' = Json(400, [error |-> "Invalid URL provided"])
            /\ UNCHANGED contacted
       ELSE \E scaleSerp \in outcomesOf("ScaleSerp" \in keys, url) :
            \E serpApi \in outcomesOf("SerpApi" \in keys /\ passes(scaleSerp), url) :
            \E valueSerp \in outcomesOf(/\ "ValueSerp" \in keys
                                         /\ passes(scaleSerp) /\ passes(serpApi), url) :
            \E draw \in IF "ok" \in {scaleSerp.kind, serpApi.kind, valueSerp.kind}
                         THEN Draws ELSE {"lowest"} :
            \E f \in IF "ok" \in {scaleSerp.kind, serpApi.kind, valueSerp.kind}
                      THEN {Frac(0, 1)} ELSE Fractions :
            \E domain \in {hostname(url).value} :
            \E keywordData \in {fetchKeywordData(domain, keys,
                                                 [ ScaleSerp |-> scaleSerp,
                                                   SerpApi   |-> serpApi,
                                                   ValueSerp |-> valueSerp ], draw)} :
               /\ contacted' = keywordData.contacted
               /\ keywordsResponse' =
                     Json(200, keywordsJson(IF keywordData.data # Null
                                            THEN keywordData.data
                                            ELSE generateKeywordFallbackData(url, domain, f)))
    /\ UNCHANGED <<data, summary, generated, recommendations, url, clock, reportData, html,
                   result, response, console, browser, pc, requests, keys, invocations>>

NextKeywords == PostKeywords

\* nothing has been called yet; no API key is decided on
InitQuiet ==
    /\ summary = NotCalled
    /\ generated = <<>>
    /\ recommendations = NotCalled
    /\ html = NotCalled
    /\ result = NotCalled
    /\ response = NotCalled
    /\ console = <<>>
    /\ browser = "none"
    /\ pc = "idle"
    /\ requests = [m \in ModuleNames |-> "unsent"]
    /\ contacted = <<>>
    /\ keywordsResponse = NotCalled
    /\ invocations = <<>>

\* nothing has been called and no report has been compiled yet
InitOutcomes ==
    /\ InitQuiet
    /\ reportData = Undefined
    /\ keys = {}

\* the times a call may be made at: the start and the end of a day
Times == {[day |-> 20396, ms |-> 0], [day |-> 20396, ms |-> 86399999]}

InitCalls ==
    /\ InitOutcomes
    /\ url = UrlPlain
    /\ clock = [day |-> 20396, ms |-> 0]

(***************************************************************************)
(* Inputs                                                                  *)
(***************************************************************************)
\* a payload in which no checklist item and no rule is at a boundary
BaseTechnical == TechnicalSEOData(75, 85, "needs-improvement", "needs-improvement")

BaseContent == ContentAuditData(75, 75, 75, 700, 40, 20)

BaseKeywords == KeywordsData(25, 3, 120)

BaseBacklinks == BacklinksData(150, 2, 55)

\* 0..100 scores around the three health thresholds, and the two extremes
HealthScores == (Near({50, 70, 85}) \cup {0, 100}) \cap 0..100

\* payloads with any subset of the modules missing
InitAbsent ==
    /\ InitCalls
    /\ \E present \in SUBSET ModuleNames :
       \E perf \in Near({50, 85}), seo \in Near({50, 85}), title \in Near({50, 85}) :
          data = Payload(
            IF "technicalSeo" \in present
              THEN TechnicalSEOData(perf, seo, "good", "good") ELSE Undefined,
            IF "contentAudit" \in present
              THEN ContentAuditData(title, title, 75, 700, 40, 20) ELSE Undefined,
            IF "keywords" \in present THEN BaseKeywords ELSE Undefined,
            IF "backlinks" \in present THEN BaseBacklinks ELSE Undefined)

\* the four inputs of overallHealth
InitHealth ==
    /\ InitCalls
    /\ \E perf \in HealthScores, seo \in HealthScores,
          title \in HealthScores, meta \in HealthScores :
          data = Payload(TechnicalSEOData(perf, seo, "good", "good"),
                         ContentAuditData(title, meta, 75, 700, 40, 20),
                         BaseKeywords, BaseBacklinks)

\* the seven inputs of the quick-wins checklist
InitQuickWins ==
    /\ InitCalls
    /\ \E cls \in CwvScores, seo \in Near({90}), words \in Near({800}),
          title \in Near({80}), top10 \in Near({30}), growth \in Near({0}),
          rating \in Near({70}) :
          data = Payload(TechnicalSEOData(75, seo, "good", cls),
                         ContentAuditData(title, 75, 75, words, 40, 20),
                         KeywordsData(top10, 3, 120),
                         BacklinksData(150, growth, rating))

\* the seven inputs of the urgent-issues checklist
InitUrgent ==
    /\ InitCalls
    /\ \E perf \in Near({50}), lcp \in CwvScores, title \in Near({50}),
          meta \in Near({50}), h1 \in Near({30}), top10 \in Near({10}),
          growth \in Near({-10}) :
          data = Payload(TechnicalSEOData(perf, 85, lcp, "good"),
                         ContentAuditData(title, meta, h1, 700, 40, 20),
                         KeywordsData(top10, 3, 120),
                         BacklinksData(150, growth, 55))

\* the inputs of trafficStatus and competitivePosition
InitPosition ==
    /\ InitCalls
    /\ \E change \in Near({-5, 5}),
          rating \in (Near({40, 70}) \cup {0, 100}) \cap 0..100,
          top10 \in (Near({40, 70}) \cup {0, 100}) \cap 0..100 :
          data = Payload(BaseTechnical, BaseContent,
                         KeywordsData(top10, change, 120),
                         BacklinksData(150, 2, rating))

\* every combination of the fifteen rules, each input just below or at its threshold
InitEngine ==
    /\ InitCalls
    /\ \E perf \in {59, 60}, lcp \in {"poor", "good"}, cls \in {"poor", "good"},
          seo \in {79, 80}, title \in {79, 80}, meta \in {79, 80}, h1 \in {69, 70},
          stale \in {40, 41}, words \in {599, 600}, top10 \in {19, 20},
          change \in {0, 1}, indexed \in {49, 50}, domains \in {99, 100},
          growth \in {-1, 0}, rating \in {49, 50} :
          data = Payload(TechnicalSEOData(perf, seo, lcp, cls),
                         ContentAuditData(title, meta, h1, words, 40, stale),
                         KeywordsData(top10, change, indexed),
                         BacklinksData(domains, growth, rating))

\* the inputs the urgent-issues checklist shares with the rules, each at a
\* level that is urgent, that fires the rule only, or that does neither, with
\* the rules the checklist does not share firing or not
InitShared ==
    /\ InitCalls
    /\ \E perf \in {49, 59, 60}, lcp \in {"poor", "good"}, title \in {49, 79, 80},
          meta \in {49, 80}, h1 \in {29, 69, 70}, top10 \in {9, 20}, growth \in {-11, 0},
          cls \in {"poor", "good"}, seo \in {79, 80}, rest \in BOOLEAN :
          data = Payload(TechnicalSEOData(perf, seo, lcp, cls),
                         ContentAuditData(title, meta, h1, IF rest THEN 599 ELSE 600, 40,
                                          IF rest THEN 41 ELSE 40),
                         KeywordsData(top10, IF rest THEN 0 ELSE 1, IF rest THEN 49 ELSE 50),
                         BacklinksData(IF rest THEN 99 ELSE 100, growth,
                                       IF rest THEN 49 ELSE 50))

\* the technical inputs around their thresholds with the content inputs just
\* below or at theirs, and the other way round
InitRules ==
    /\ InitCalls
    /\ \/ \E perf \in Near({60}), lcp \in CwvScores, cls \in CwvScores,
             seo \in Near({80}), title \in {79, 80}, meta \in {79, 80},
             h1 \in {69, 70}, stale \in {40, 41}, words \in {599, 600} :
             data = Payload(TechnicalSEOData(perf, seo, lcp, cls),
                            ContentAuditData(title, meta, h1, words, 40, stale),
                            BaseKeywords, BaseBacklinks)
       \/ \E perf \in {59, 60}, lcp \in {"poor", "good"}, cls \in {"poor", "good"},
             seo \in {79, 80}, title \in Near({80}), meta \in Near({80}),
             h1 \in Near({70}), stale \in Near({40}), words \in Near({600}) :
             data = Payload(TechnicalSEOData(perf, seo, lcp, cls),
                            ContentAuditData(title, meta, h1, words, 40, stale),
                            BaseKeywords, BaseBacklinks)

\* the keyword and backlink inputs around their thresholds
InitLinkRules ==
    /\ InitCalls
    /\ \E top10 \in Near({20}), change \in Near({0}), indexed \in Near({50}),
          domains \in Near({100}), growth \in Near({0}), rating \in Near({50}) :
          data = Payload(BaseTechnical, BaseContent,
                         KeywordsData(top10, change, indexed),
                         BacklinksData(domains, growth, rating))

\* scenario A: a failing performance score and a poor LCP, with every
\* combination of the other thirteen rules
InitScenarioA ==
    /\ InitCalls
    /\ \E perf \in {45, 59}, cls \in {"poor", "good"},
          seo \in {79, 80}, title \in {79, 80}, meta \in {79, 80}, h1 \in {69, 70},
          stale \in {40, 41}, words \in {599, 600}, top10 \in {19, 20},
          change \in {0, 1}, indexed \in {49, 50}, domains \in {99, 100},
          growth \in {-1, 0}, rating \in {49, 50} :
          data = Payload(TechnicalSEOData(perf, seo, "poor", cls),
                         ContentAuditData(title, meta, h1, words, 40, stale),
                         KeywordsData(top10, change, indexed),
                         BacklinksData(domains, growth, rating))

\* scenario B: the ideal values, with the fields the scenario leaves open
InitScenarioB ==
    /\ InitCalls
    /\ \E lcp \in CwvScores, cls \in CwvScores, h1 \in Near({30}) \cup {75},
          words \in Near({800}) :
          data = Payload(TechnicalSEOData(95, 98, lcp, cls),
                         ContentAuditData(95, 95, h1, words, 40, 20),
                         KeywordsData(40, 3, 120),
                         BacklinksData(150, 5, 80))

\* scenario C: traffic changes around -5 and 0, with every combination of the
\* other high-priority rules and the medium-priority rules all on or all off
InitScenarioC ==
    /\ InitCalls
    /\ \E change \in Near({-5, 0}), perf \in {59, 60}, lcp \in {"poor", "good"},
          title \in {79, 80}, meta \in {79, 80}, top10 \in {19, 20},
          domains \in {99, 100}, growth \in {-1, 0}, medium \in BOOLEAN :
          data = Payload(
            TechnicalSEOData(perf, IF medium THEN 79 ELSE 80, lcp,
                             IF medium THEN "poor" ELSE "good"),
            ContentAuditData(title, meta, IF medium THEN 69 ELSE 70,
                             IF medium THEN 599 ELSE 600, 40,
                             IF medium THEN 41 ELSE 40),
            KeywordsData(top10, change, IF medium THEN 49 ELSE 50),
            BacklinksData(domains, growth, IF medium THEN 49 ELSE 50))

InitScenarios ==
    \/ InitScenarioA
    \/ InitScenarioB
    \/ InitScenarioC

\* a payload for which no rule of the engine fires
HealthyPayload ==
    Payload(TechnicalSEOData(95, 98, "good", "good"),
            ContentAuditData(95, 95, 98, 900, 40, 20),
            KeywordsData(40, 5, 120),
            BacklinksData(150, 5, 80))

\* a payload for which every rule of the engine fires
WeakPayload ==
    Payload(TechnicalSEOData(45, 60, "poor", "poor"),
            ContentAuditData(50, 50, 50, 300, 10, 50),
            KeywordsData(10, -10, 30),
            BacklinksData(50, -3, 30))

\* entries of TechnicalSEOData.issues
SampleIssues ==
    << [ type |-> "error", title |-> "Render-blocking resources",
         description |-> "Eliminate render-blocking resources", impact |-> "high" ],
       [ type |-> "warning", title |-> "Image optimization",
         description |-> "Serve images in next-gen formats", impact |-> "medium" ] >>

\* the payloads of the repeated invocations: no rule fires, every rule
\* fires, some rules fire, a module is missing
RepeatedPayloads ==
    { HealthyPayload, WeakPayload,
      Payload(BaseTechnical, BaseContent, BaseKeywords, BaseBacklinks),
      [WeakPayload EXCEPT !.backlinks = Undefined] }

\* an input of a repeated invocation, with no result yet
Invocation(u, modules) ==
    [url |-> u, data |-> modules, summary |-> NotCalled, recommendations |-> NotCalled]

\* two inputs for different urls, to be passed to the generators in any order
\* and any number of times
InitRepeated ==
    /\ summary = NotCalled
    /\ generated = <<>>
    /\ recommendations = NotCalled
    /\ html = NotCalled
    /\ result = NotCalled
    /\ response = NotCalled
    /\ console = <<>>
    /\ browser = "none"
    /\ pc = "idle"
    /\ requests = [m \in ModuleNames |-> "unsent"]
    /\ contacted = <<>>
    /\ keywordsResponse = NotCalled
    /\ reportData = Undefined
    /\ keys = {}
    /\ url = UrlPlain
    /\ clock = [day |-> 20396, ms |-> 0]
    /\ data = HealthyPayload
    /\ \E first \in RepeatedPayloads, second \in RepeatedPayloads :
          invocations = <<Invocation(UrlPlain, first), Invocation(UrlMixedCase, second)>>

\* requests to the keywords endpoint under every configuration of API keys
InitKeywords ==
    /\ InitQuiet
    /\ reportData = Undefined
    /\ url \in {UrlPlain, UrlMixedCase, UrlMailto, UrlNoScheme, UrlEmpty}
    /\ clock = [day |-> 20396, ms |-> 0]
    /\ data = HealthyPayload
    /\ keys \in SUBSET Providers

\* requests of a combined analysis: the providers answer with a healthy or
\* a weak payload
InitAnalysis ==
    /\ InitOutcomes
    /\ url \in {UrlPlain, UrlMixedCase, UrlEmpty}
    /\ clock \in Times
    /\ data \in {HealthyPayload, WeakPayload}

\* requests to the generator and to the routes: any url, any subset of the
\* modules missing, each present module healthy or weak
InitReport ==
    /\ InitOutcomes
    /\ url \in Urls
    /\ clock \in Times
    /\ \E chosen \in [ModuleNames -> {"missing", "healthy", "weak"}] :
          data = [m \in ModuleNames |->
                    IF chosen[m] = "missing" THEN Undefined
                    ELSE IF chosen[m] = "healthy" THEN HealthyPayload[m]
                    ELSE WeakPayload[m]]

\* reports handed to the template: with and without each optional property,
\* with zero, one and two technical issues
InitRender ==
    /\ InitQuiet
    /\ keys = {}
    /\ url \in {u \in Urls : hostname(u).status = "returned"}
    /\ clock \in Times
    /\ \E modules \in {HealthyPayload, WeakPayload,
                        Payload(BaseTechnical, BaseContent, BaseKeywords, BaseBacklinks)},
          issues \in 0..Len(SampleIssues) :
          data = [modules EXCEPT !.technicalSeo.issues = SubSeq(SampleIssues, 1, issues)]
    /\ \E withSummary \in BOOLEAN, withRecommendations \in BOOLEAN :
          reportData = SEOReportData(url, hostname(url).value, toISOString(clock), data)
              @@ (IF withSummary
                  THEN [executiveSummary |-> ExecutiveSummaryGenerator_generate(data).value]
                  ELSE <<>>)
              @@ (IF withRecommendations
                  THEN [recommendations |-> RecommendationsEngine_generate(data).value]
                  ELSE <<>>)

\* the i-th entry of ContentAuditData.topPages: every third page has no
\* title, every fourth a url of more than fifty characters
TopPage(i) ==
    [ url      |-> UrlPlain \o <<"/", "p">> \o [k \in 1..(IF i % 4 = 0 THEN 40 + i ELSE i) |-> "a"],
      title    |-> IF i % 3 = 0 THEN "" ELSE "Page " \o ToString(i),
      wordCount          |-> 250 * i,
      hasMetaDescription |-> i % 2 = 0,
      hasH1              |-> i % 5 # 0,
      hasCTA             |-> i % 2 = 1 ]

\* the i-th entry of KeywordsData.performingKeywords.best and .worst
Keyword(i) ==
    [ keyword    |-> "keyword " \o ToString(i),
      position   |-> i,
      volume     |-> 700 * i,
      difficulty |-> 30 + i,
      url        |-> UrlPlain,
      change     |-> 3 - i ]

\* the i-th entry of BacklinksData.topReferringDomains
ReferringDomain(i) ==
    [ domain       |-> "site" \o ToString(i) \o ".com",
      backlinks    |-> 40 * i,
      domainRating |-> 90 - i,
      traffic      |-> 1500 * i ]

\* the i-th entry of BacklinksData.anchorTexts
AnchorText(i) ==
    [ text |-> "anchor " \o ToString(i), count |-> 12 - i, percentage |-> 20 - i ]

\* list lengths around a cap: empty, and within Radius of the cap
Lengths(cap) == {0} \cup Near({cap})

\* reports whose five tabulated lists have lengths around their caps
InitTables ==
    /\ InitQuiet
    /\ keys = {}
    /\ url = UrlPlain
    /\ clock = [day |-> 20396, ms |-> 0]
    /\ \E pages \in Lengths(10), best \in Lengths(5), worst \in Lengths(5),
          domains \in Lengths(10), anchors \in Lengths(10) :
          /\ data = [HealthyPayload EXCEPT
                        !.contentAudit.topPages = [i \in 1..pages |-> TopPage(i)],
                        !.keywords.performingKeywords.best = [i \in 1..best |-> Keyword(i)],
                        !.keywords.performingKeywords.worst = [i \in 1..worst |-> Keyword(20 - i)],
                        !.backlinks.topReferringDomains =
                            [i \in 1..domains |-> ReferringDomain(i)],
                        !.backlinks.anchorTexts = [i \in 1..anchors |-> AnchorText(i)]]
    /\ reportData = SEOReportData(url, hostname(url).value, toISOString(clock), data)
                      @@ [ executiveSummary |-> ExecutiveSummaryGenerator_generate(data).value,
                           recommendations  |-> RecommendationsEngine_generate(data).value ]

Init ==
    \/ InitReport
    \/ InitTables
    \/ InitShared
    \/ InitAnalysis
    \/ InitKeywords
    \/ InitRepeated
    \/ InitRender
    \/ InitAbsent
    \/ InitHealth
    \/ InitQuickWins
    \/ InitUrgent
    \/ InitPosition
    \/ InitEngine
    \/ InitRules
    \/ InitLinkRules
    \/ InitScenarios

(***************************************************************************)
(* Specifications                                                          *)
(***************************************************************************)
Spec == Init /\ [][Next]_vars

SpecAbsent == InitAbsent /\ [][Next]_vars

SpecHealth == InitHealth /\ [][Next]_vars

SpecQuickWins == InitQuickWins /\ [][Next]_vars

SpecUrgent == InitUrgent /\ [][Next]_vars

SpecPosition == InitPosition /\ [][Next]_vars

SpecEngine == InitEngine /\ [][Next]_vars

SpecRules == InitRules /\ [][Next]_vars

SpecLinkRules == InitLinkRules /\ [][Next]_vars

SpecScenarios == InitScenarios /\ [][Next]_vars

SpecShared == InitShared /\ [][Next]_vars

SpecKeywords == InitKeywords /\ [][NextKeywords]_vars

SpecRepeated == InitRepeated /\ [][NextRepeated]_vars

SpecAnalysis == InitAnalysis /\ [][NextAnalysis]_vars

SpecReport == InitReport /\ [][NextReport]_vars

SpecRender == InitRender /\ [][NextRender]_vars

SpecTables == InitTables /\ [][NextRender]_vars

(***************************************************************************)
(* Properties of ExecutiveSummaryGenerator                                 *)
(***************************************************************************)
\* the summary a returned call produced
Summary == summary.value

\* the indices of the checklist items that hold
Hits(conds) == {i \in 1..Len(conds) : conds[i]}

\* the k-th smallest member of a set of indices
Nth(hits, k) == CHOOSE i \in hits : Cardinality({j \in hits : j <= i}) = k

\* the first `cap` messages of the checklist items that hold, in checklist order
Checklist(conds, msgs, cap) ==
    [k \in 1..Min(cap, Cardinality(Hits(conds))) |-> msgs[Nth(Hits(conds), k)]]

\* C1: ExecutiveSummaryGenerator.generate never raises, and when one of the
\* four modules is absent it returns a summary whose overallHealth is poor.
C1_NeverRaises ==
    summary.status # "idle" =>
        /\ summary.status = "returned"
        /\ Absent(data) # {} => Summary.overallHealth = "poor"

\* C2: with A = (performanceScore + seoScore + (titleTags% + metaDescriptions%)/2) / 3,
\* written here as 6A = 2*performanceScore + 2*seoScore + titleTags% + metaDescriptions%,
\* overallHealth is excellent iff A >= 85, good iff 70 <= A < 85, fair iff
\* 50 <= A < 70, and poor iff A < 50.
C2_HealthGrade ==
    summary.status = "returned" =>
        LET A6 == 2 * data.technicalSeo.performanceScore
                  + 2 * data.technicalSeo.seoScore
                  + data.contentAudit.metadataCompleteness.titleTags.percentage
                  + data.contentAudit.metadataCompleteness.metaDescriptions.percentage
            h  == Summary.overallHealth
        IN  /\ h = "excellent" <=> A6 >= 6 * 85
            /\ h = "good"      <=> (6 * 70 <= A6 /\ A6 < 6 * 85)
            /\ h = "fair"      <=> (6 * 50 <= A6 /\ A6 < 6 * 70)
            /\ h = "poor"      <=> A6 < 6 * 50

\* an average of exactly 85 was graded excellent
C2_Witness ==
    /\ summary.status = "returned"
    /\ data.technicalSeo.performanceScore = 85
    /\ data.technicalSeo.seoScore = 85
    /\ data.contentAudit.metadataCompleteness.titleTags.percentage = 84
    /\ data.contentAudit.metadataCompleteness.metaDescriptions.percentage = 86
    /\ Summary.overallHealth = "excellent"

QuickWinConds(d) ==
    << d.technicalSeo.coreWebVitals.cls.score = "good",
       d.technicalSeo.seoScore >= 90,
       d.contentAudit.contentMetrics.averageWordCount > 800,
       d.contentAudit.metadataCompleteness.titleTags.percentage > 80,
       d.keywords.distribution.top10.percentage >= 30,
       d.backlinks.referringDomainsGrowth.change > 0,
       d.backlinks.domainRating > 70 >>

QuickWinMessages ==
    << "Excellent layout stability (CLS score)",
       "Strong SEO foundation in place",
       "Good content depth with adequate word count",
       "Most pages have proper title tags",
       "Strong keyword rankings in top 10 positions",
       "Positive backlink growth trend",
       "High domain authority" >>

\* C3: quickWins is the first 5 (or all, if fewer) messages of the satisfied
\* conditions of the quick-wins checklist, in checklist order; its length is
\* min(5, number of satisfied conditions).
C3_QuickWins ==
    summary.status = "returned" =>
        /\ Summary.quickWins = Checklist(QuickWinConds(data), QuickWinMessages, 5)
        /\ Len(Summary.quickWins) = Min(5, Cardinality(Hits(QuickWinConds(data))))

\* all seven conditions hold and the last two messages were dropped
C3_Witness ==
    /\ summary.status = "returned"
    /\ Hits(QuickWinConds(data)) = 1..7
    /\ Len(Summary.quickWins) = 5
    /\ Summary.quickWins[5] = "Strong keyword rankings in top 10 positions"

UrgentConds(d) ==
    << d.technicalSeo.performanceScore < 50,
       d.technicalSeo.coreWebVitals.lcp.score = "poor",
       d.contentAudit.metadataCompleteness.titleTags.percentage < 50,
       d.contentAudit.metadataCompleteness.metaDescriptions.percentage < 50,
       d.contentAudit.metadataCompleteness.h1Tags.percentage < 30,
       d.keywords.distribution.top10.percentage < 10,
       d.backlinks.referringDomainsGrowth.change < -10 >>

UrgentMessages ==
    << "Poor performance score - immediate optimization needed",
       "Slow page loading speed (LCP > 4s)",
       "Many pages missing title tags",
       "Many pages missing meta descriptions",
       "Most pages lack proper H1 headings",
       "Very few keywords ranking in top 10",
       "Significant backlink loss detected" >>

\* C4: urgentIssues is the first 5 (or all, if fewer) messages of the
\* satisfied conditions of the urgent-issues checklist, in checklist order;
\* a condition that does not hold contributes nothing and no entry repeats.
C4_UrgentIssues ==
    summary.status = "returned" =>
        LET u == Summary.urgentIssues
        IN  /\ u = Checklist(UrgentConds(data), UrgentMessages, 5)
            /\ \A i \in 1..7 :
                  ~UrgentConds(data)[i] =>
                      \A k \in 1..Len(u) : u[k] # UrgentMessages[i]
            /\ \A j, k \in 1..Len(u) : j # k => u[j] # u[k]

\* six conditions hold, one at its boundary does not, and five were listed
C4_Witness ==
    /\ summary.status = "returned"
    /\ data.contentAudit.metadataCompleteness.titleTags.percentage = 50
    /\ Hits(UrgentConds(data)) = (1..7) \ {3}
    /\ Len(Summary.urgentIssues) = 5
    /\ Summary.urgentIssues[3] = "Many pages missing meta descriptions"

\* C5: trafficStatus is increasing iff organicTraffic.change > 5, decreasing
\* iff change < -5, and stable for every change in -5..5.
C5_TrafficStatus ==
    summary.status = "returned" =>
        LET change == data.keywords.organicTraffic.change
        IN  /\ Summary.trafficStatus = "increasing" <=> change > 5
            /\ Summary.trafficStatus = "decreasing" <=> change < -5
            /\ Summary.trafficStatus = "stable" <=> change \in -5..5

\* the boundary change of 5 was classified stable
C5_Witness ==
    /\ summary.status = "returned"
    /\ data.keywords.organicTraffic.change = 5
    /\ Summary.trafficStatus = "stable"

\* C6: competitivePosition is strong iff (domainRating + top10%)/2 >= 70,
\* moderate iff 40 <= (domainRating + top10%)/2 < 70, and weak otherwise
\* (the average is compared doubled: domainRating + top10% against 140 and 80).
C6_CompetitivePosition ==
    summary.status = "returned" =>
        LET twice == data.backlinks.domainRating
                     + data.keywords.distribution.top10.percentage
        IN  /\ Summary.competitivePosition = "strong" <=> twice >= 2 * 70
            /\ Summary.competitivePosition = "moderate"
                   <=> (2 * 40 <= twice /\ twice < 2 * 70)
            /\ Summary.competitivePosition = "weak" <=> twice < 2 * 40

\* an average of 69.5 was classified moderate
C6_Witness ==
    /\ summary.status = "returned"
    /\ data.backlinks.domainRating = 70
    /\ data.keywords.distribution.top10.percentage = 69
    /\ Summary.competitivePosition = "moderate"

(***************************************************************************)
(* Properties of RecommendationsEngine                                     *)
(***************************************************************************)
\* the list a returned call produced
Ranked == recommendations.value

\* the titles of the rules whose condition holds, per the rule tables
FiringTitles(d) ==
    LET t == d.technicalSeo
        c == d.contentAudit
        k == d.keywords
        b == d.backlinks
        when(cond, title) == IF cond THEN {title} ELSE {}
    IN  when(t.performanceScore < 60, "Improve Page Performance")
        \cup when(t.coreWebVitals.lcp.score = "poor", "Fix Largest Contentful Paint (LCP)")
        \cup when(t.coreWebVitals.cls.score = "poor", "Reduce Cumulative Layout Shift (CLS)")
        \cup when(t.seoScore < 80, "Improve Technical SEO Score")
        \cup when(c.metadataCompleteness.titleTags.percentage < 80, "Add Missing Title Tags")
        \cup when(c.metadataCompleteness.metaDescriptions.percentage < 80, "Write Meta Descriptions")
        \cup when(c.metadataCompleteness.h1Tags.percentage < 70, "Add H1 Headings")
        \cup when(c.contentMetrics.contentFreshness.stale > c.contentMetrics.contentFreshness.fresh,
                  "Update Stale Content")
        \cup when(c.contentMetrics.averageWordCount < 600, "Increase Content Depth")
        \cup when(k.distribution.top10.percentage < 20, "Improve Keyword Rankings")
        \cup when(k.organicTraffic.change <= 0, "Increase Organic Traffic")
        \cup when(k.indexedKeywords < 50, "Expand Keyword Coverage")
        \cup when(b.referringDomains < 100, "Build More Quality Backlinks")
        \cup when(b.referringDomainsGrowth.change < 0, "Address Backlink Loss")
        \cup when(b.domainRating < 50, "Improve Domain Authority")

\* the rules in generation order: technical, content, keywords, backlinks
RuleOrder ==
    << "Improve Page Performance", "Fix Largest Contentful Paint (LCP)",
       "Reduce Cumulative Layout Shift (CLS)", "Improve Technical SEO Score",
       "Add Missing Title Tags", "Write Meta Descriptions", "Add H1 Headings",
       "Update Stale Content", "Increase Content Depth",
       "Improve Keyword Rankings", "Increase Organic Traffic", "Expand Keyword Coverage",
       "Build More Quality Backlinks", "Address Backlink Loss", "Improve Domain Authority" >>

\* the position of a title in the rule order
RuleIndex(title) == CHOOSE i \in 1..Len(RuleOrder) : RuleOrder[i] = title

Level == [high |-> 3, medium |-> 2, low |-> 1]

\* a ranks strictly before b: higher priority, or equal priority and higher
\* impact, or equal on both and generated earlier
Outranks(a, b) ==
    \/ Level[a.priority] > Level[b.priority]
    \/ /\ a.priority = b.priority
       /\ Level[a.estimatedImpact] > Level[b.estimatedImpact]
    \/ /\ a.priority = b.priority
       /\ a.estimatedImpact = b.estimatedImpact
       /\ RuleIndex(a.title) < RuleIndex(b.title)

\* the members of a list
Range(s) == {s[i] : i \in 1..Len(s)}

\* C7: RecommendationsEngine.generate returns at most 10 entries, the first
\* 10 (or all, if fewer) of the ranked list of every fired recommendation:
\* each rule whose condition holds contributes exactly one entry, no entry is
\* duplicated, and every fired recommendation left out ranks after every
\* returned one.
C7_TopTen ==
    recommendations.status = "returned" =>
        /\ Len(Ranked) <= 10
        /\ Len(Ranked) = Min(10, Cardinality(FiringTitles(data)))
        /\ Len(generated) = Cardinality(FiringTitles(data))
        /\ {r.title : r \in Range(generated)} = FiringTitles(data)
        /\ \A i, j \in 1..Len(Ranked) : i # j => Ranked[i].title # Ranked[j].title
        /\ Range(Ranked) \subseteq Range(generated)
        /\ \A out \in Range(generated) \ Range(Ranked) :
              \A in \in Range(Ranked) : Outranks(in, out)

\* more than ten rules fired, ten were returned, a high-priority keyword
\* recommendation among them
C7_Witness ==
    /\ recommendations.status = "returned"
    /\ Len(generated) > 10
    /\ Len(Ranked) = 10
    /\ \E i \in 1..10 : Ranked[i].title = "Increase Organic Traffic"

\* C8: the ranking is a stable sort by priority (high > medium > low) with
\* estimatedImpact as tie-break: an entry placed before another has a higher
\* priority, or the same priority and an impact at least as high, and entries
\* equal on both keys keep their generation order (technical, content,
\* keywords, backlinks, and rule order within a module).
C8_StableRanking ==
    recommendations.status = "returned" =>
        /\ \A i, j \in 1..Len(generated) :
              i < j => RuleIndex(generated[i].title) < RuleIndex(generated[j].title)
        /\ \A i, j \in 1..Len(Ranked) :
              i < j =>
                 /\ \/ Level[Ranked[i].priority] > Level[Ranked[j].priority]
                    \/ /\ Ranked[i].priority = Ranked[j].priority
                       /\ Level[Ranked[i].estimatedImpact] >= Level[Ranked[j].estimatedImpact]
                 /\ ( /\ Ranked[i].priority = Ranked[j].priority
                      /\ Ranked[i].estimatedImpact = Ranked[j].estimatedImpact )
                    => \E gi, gj \in 1..Len(generated) :
                          /\ gi < gj
                          /\ generated[gi] = Ranked[i]
                          /\ generated[gj] = Ranked[j]

\* two entries equal on both keys, from different modules, listed after an
\* entry generated later than both
C8_Witness ==
    /\ recommendations.status = "returned"
    /\ \E i, j, k \in 1..Len(Ranked) :
          /\ i < j /\ j < k
          /\ Ranked[i].title = "Build More Quality Backlinks"
          /\ Ranked[j].title = "Reduce Cumulative Layout Shift (CLS)"
          /\ Ranked[k].title = "Expand Keyword Coverage"

\* C9 as stated: from the first entry to the last, priority never increases
\* and estimatedImpact never increases.
C9_BothKeysNonIncreasing ==
    recommendations.status = "returned" =>
        \A i, j \in 1..Len(Ranked) :
            i < j =>
                /\ Level[Ranked[i].priority] >= Level[Ranked[j].priority]
                /\ Level[Ranked[i].estimatedImpact] >= Level[Ranked[j].estimatedImpact]

\* C9 amended: from each entry to the next, priority never increases, and
\* estimatedImpact never increases between two entries of the same priority.
C9_PriorityThenImpact ==
    recommendations.status = "returned" =>
        \A i \in 1..(Len(Ranked) - 1) :
            /\ Level[Ranked[i].priority] >= Level[Ranked[i + 1].priority]
            /\ Ranked[i].priority = Ranked[i + 1].priority
                  => Level[Ranked[i].estimatedImpact] >= Level[Ranked[i + 1].estimatedImpact]

\* a high-priority entry of medium impact is listed before a medium-priority
\* entry of high impact
C9_Witness ==
    /\ recommendations.status = "returned"
    /\ \E i, j \in 1..Len(Ranked) :
          /\ i < j
          /\ Ranked[i].title = "Write Meta Descriptions"
          /\ Ranked[j].title = "Improve Domain Authority"
          /\ Ranked[i].estimatedImpact = "medium"
          /\ Ranked[j].estimatedImpact = "high"

\* the technical and content rules: title, condition, priority, category
TechnicalAndContentRules(d) ==
    LET t == d.technicalSeo
        c == d.contentAudit
    IN  { [title |-> "Improve Page Performance", fires |-> t.performanceScore < 60,
           priority |-> "high", category |-> "technical"],
          [title |-> "Fix Largest Contentful Paint (LCP)",
           fires |-> t.coreWebVitals.lcp.score = "poor",
           priority |-> "high", category |-> "technical"],
          [title |-> "Reduce Cumulative Layout Shift (CLS)",
           fires |-> t.coreWebVitals.cls.score = "poor",
           priority |-> "medium", category |-> "technical"],
          [title |-> "Improve Technical SEO Score", fires |-> t.seoScore < 80,
           priority |-> "medium", category |-> "technical"],
          [title |-> "Add Missing Title Tags",
           fires |-> c.metadataCompleteness.titleTags.percentage < 80,
           priority |-> "high", category |-> "content"],
          [title |-> "Write Meta Descriptions",
           fires |-> c.metadataCompleteness.metaDescriptions.percentage < 80,
           priority |-> "high", category |-> "content"],
          [title |-> "Add H1 Headings",
           fires |-> c.metadataCompleteness.h1Tags.percentage < 70,
           priority |-> "medium", category |-> "content"],
          [title |-> "Update Stale Content",
           fires |-> c.contentMetrics.contentFreshness.stale
                       > c.contentMetrics.contentFreshness.fresh,
           priority |-> "medium", category |-> "content"],
          [title |-> "Increase Content Depth",
           fires |-> c.contentMetrics.averageWordCount < 600,
           priority |-> "medium", category |-> "content"] }

\* C10: each technical and content rule fires exactly when its own condition
\* holds, whatever the other rules do, and its entry has the stated priority
\* and category; at a boundary value the rule does not fire.
C10_TechnicalContentRules ==
    recommendations.status = "returned" =>
        \A rule \in TechnicalAndContentRules(data) :
            LET entries == {i \in 1..Len(generated) : generated[i].title = rule.title}
            IN  /\ Cardinality(entries) = IF rule.fires THEN 1 ELSE 0
                /\ \A i \in entries :
                      /\ generated[i].priority = rule.priority
                      /\ generated[i].category = rule.category

\* performanceScore and h1Tags% at their boundaries did not fire while the
\* neighbouring rules did
C10_Witness ==
    /\ recommendations.status = "returned"
    /\ data.technicalSeo.performanceScore = 60
    /\ data.contentAudit.metadataCompleteness.h1Tags.percentage = 70
    /\ {r.title : r \in Range(generated)} =
          { "Fix Largest Contentful Paint (LCP)", "Improve Technical SEO Score",
            "Add Missing Title Tags", "Update Stale Content" }

\* the keyword and backlink rules: title, condition, priority, category
KeywordAndBacklinkRules(d) ==
    LET k == d.keywords
        b == d.backlinks
    IN  { [title |-> "Improve Keyword Rankings",
           fires |-> k.distribution.top10.percentage < 20,
           priority |-> "high", category |-> "keywords"],
          [title |-> "Increase Organic Traffic", fires |-> k.organicTraffic.change <= 0,
           priority |-> "high", category |-> "keywords"],
          [title |-> "Expand Keyword Coverage", fires |-> k.indexedKeywords < 50,
           priority |-> "medium", category |-> "keywords"],
          [title |-> "Build More Quality Backlinks", fires |-> b.referringDomains < 100,
           priority |-> "high", category |-> "backlinks"],
          [title |-> "Address Backlink Loss",
           fires |-> b.referringDomainsGrowth.change < 0,
           priority |-> "high", category |-> "backlinks"],
          [title |-> "Improve Domain Authority", fires |-> b.domainRating < 50,
           priority |-> "medium", category |-> "backlinks"] }

\* C11: each keyword and backlink rule fires exactly when its own condition
\* holds, whatever the other rules do, and its entry has the stated priority
\* and category; organicTraffic.change = 0 fires the traffic rule and
\* referringDomainsGrowth.change = 0 does not fire the backlink-loss rule.
C11_KeywordBacklinkRules ==
    recommendations.status = "returned" =>
        \A rule \in KeywordAndBacklinkRules(data) :
            LET entries == {i \in 1..Len(generated) : generated[i].title = rule.title}
            IN  /\ Cardinality(entries) = IF rule.fires THEN 1 ELSE 0
                /\ \A i \in entries :
                      /\ generated[i].priority = rule.priority
                      /\ generated[i].category = rule.category

\* both changes are 0: the traffic rule fired and the backlink-loss rule did not
C11_Witness ==
    /\ recommendations.status = "returned"
    /\ data.keywords.organicTraffic.change = 0
    /\ data.backlinks.referringDomainsGrowth.change = 0
    /\ "Increase Organic Traffic" \in {r.title : r \in Range(generated)}
    /\ "Address Backlink Loss" \notin {r.title : r \in Range(generated)}

\* C12: whenever performanceScore < 60 and lcp.score = poor, whatever the
\* other fields, the returned list has exactly two entries of category
\* technical and priority high: the performance and the LCP recommendation.
C12_ScenarioA ==
    ( /\ recommendations.status = "returned"
      /\ data.technicalSeo.performanceScore < 60
      /\ data.technicalSeo.coreWebVitals.lcp.score = "poor" ) =>
        LET hits == {i \in 1..Len(Ranked) :
                        Ranked[i].category = "technical" /\ Ranked[i].priority = "high"}
        IN  /\ Cardinality(hits) = 2
            /\ {Ranked[i].title : i \in hits} =
                  {"Improve Page Performance", "Fix Largest Contentful Paint (LCP)"}

\* performanceScore = 45 with a poor LCP and all fifteen rules fired: the two
\* technical high-priority entries head the ten that were returned
C12_Witness ==
    /\ recommendations.status = "returned"
    /\ data.technicalSeo.performanceScore = 45
    /\ data.technicalSeo.coreWebVitals.lcp.score = "poor"
    /\ Len(generated) = 15
    /\ Len(Ranked) = 10
    /\ Ranked[1].title = "Improve Page Performance"
    /\ Ranked[2].title = "Fix Largest Contentful Paint (LCP)"

\* the values scenario B fixes, and the two it leaves open kept non-failing
ScenarioB(d) ==
    /\ d.technicalSeo.performanceScore = 95
    /\ d.technicalSeo.seoScore = 98
    /\ d.contentAudit.metadataCompleteness.titleTags.percentage = 95
    /\ d.contentAudit.metadataCompleteness.metaDescriptions.percentage = 95
    /\ d.keywords.distribution.top10.percentage = 40
    /\ d.backlinks.referringDomainsGrowth.change = 5
    /\ d.backlinks.domainRating = 80
    /\ d.technicalSeo.coreWebVitals.lcp.score # "poor"
    /\ d.contentAudit.metadataCompleteness.h1Tags.percentage >= 30

\* C13: under scenario B the summary has overallHealth = excellent, exactly
\* five quickWins (the first five checklist hits, whether or not CLS and word
\* count also hit) and no urgentIssues.
C13_ScenarioB ==
    (summary.status = "returned" /\ ScenarioB(data)) =>
        /\ Summary.overallHealth = "excellent"
        /\ Len(Summary.quickWins) = 5
        /\ Summary.quickWins = Checklist(QuickWinConds(data), QuickWinMessages, 5)
        /\ Summary.urgentIssues = <<>>

\* scenario B with neither CLS nor word count hitting: the five quick wins
\* are the other five checklist items
C13_Witness ==
    /\ summary.status = "returned"
    /\ ScenarioB(data)
    /\ data.technicalSeo.coreWebVitals.cls.score # "good"
    /\ data.contentAudit.contentMetrics.averageWordCount = 800
    /\ data.contentAudit.metadataCompleteness.h1Tags.percentage = 30
    /\ Summary.quickWins[1] = "Strong SEO foundation in place"
    /\ Summary.quickWins[5] = "High domain authority"

\* C14: whenever organicTraffic.change is in -5..0, trafficStatus is stable
\* and the returned list contains the keywords, high-priority "Increase
\* Organic Traffic" entry, whatever other rules fire.
C14_ScenarioC ==
    data.keywords.organicTraffic.change \in -5..0 =>
        /\ summary.status = "returned" => Summary.trafficStatus = "stable"
        /\ recommendations.status = "returned" =>
              \E i \in 1..Len(Ranked) :
                  /\ Ranked[i].title = "Increase Organic Traffic"
                  /\ Ranked[i].category = "keywords"
                  /\ Ranked[i].priority = "high"

\* a change of 0 with all fifteen rules fired: stable, and the traffic entry
\* is among the ten returned
C14_Witness ==
    /\ summary.status = "returned"
    /\ recommendations.status = "returned"
    /\ data.keywords.organicTraffic.change = 0
    /\ Len(generated) = 15
    /\ Summary.trafficStatus = "stable"
    /\ \E i \in 1..Len(Ranked) : Ranked[i].title = "Increase Organic Traffic"

(***************************************************************************)
(* Properties of SEOReportGenerator and of the generate-report routes      *)
(***************************************************************************)
\* the report generateCompleteReport returned
Report == result.value.data

\* the host component of a url as it is written: the text after the first
\* "//" up to the next "/", "?" or "#", without userinfo and port
hostComponent(u) ==
    LET slashes == {i \in 1..(Len(u) - 1) : u[i] = "/" /\ u[i + 1] = "/"}
    IN  IF slashes = {} THEN <<>>
        ELSE LET start  == (CHOOSE i \in slashes : \A j \in slashes : i <= j) + 2
                 tail   == SubSeq(u, start, Len(u))
                 ends   == {i \in 1..Len(tail) : tail[i] \in {"/", "?", "#"}}
                 stop   == IF ends = {} THEN Len(tail) + 1
                           ELSE CHOOSE i \in ends : \A j \in ends : i <= j
                 auth   == SubSeq(tail, 1, stop - 1)
                 ats    == {i \in 1..Len(auth) : auth[i] = "@"}
                 first  == IF ats = {} THEN 1
                           ELSE (CHOOSE i \in ats : \A j \in ats : i >= j) + 1
                 colons == {i \in first..Len(auth) : auth[i] = ":"}
                 last   == IF colons = {} THEN Len(auth)
                           ELSE (CHOOSE i \in colons : \A j \in colons : i <= j) - 1
             IN  SubSeq(auth, first, last)

\* "sub.example.com"
SubExampleCom ==
    <<"s", "u", "b", ".", "e", "x", "a", "m", "p", "l", "e", ".", "c", "o", "m">>

\* C15 as stated: the domain of a generated report is the host component of
\* the url exactly as written, character case included.
C15_DomainVerbatim ==
    result.status = "returned" => Report.domain = hostComponent(url)

\* C15: the domain of a generated report is the host component of the url
\* (no scheme, userinfo, port, path, query or fragment) in lower case; it is
\* a function of the url alone, and the rendered title carries the same value.
C15_DomainLowerCased ==
    result.status = "returned" =>
        /\ Report.domain = toLowerCase(hostComponent(url))
        /\ Report.url = url
        /\ reportData.domain = Report.domain
        /\ html.value.title[2] = Report.domain

\* "https://Sub.Example.com/path?x=1" has been assembled into a report whose
\* domain is "sub.example.com"
C15_Witness ==
    /\ result.status = "returned"
    /\ url = UrlMixedCase
    /\ Report.domain = SubExampleCom
    /\ Report.domain # hostComponent(url)

\* a route has answered a request that has a url and lacks a module
MissingModuleAnswered ==
    /\ response # NotCalled
    /\ url # <<>>
    /\ Absent(data) # {}

\* C16: a request with a url and at least one module missing is answered
\* with status 400 before any generation: the synthesizer, the engine and
\* the renderer are not invoked, no report is compiled, and the body carries
\* neither reportData nor htmlContent.
C16_MissingModuleRejected ==
    MissingModuleAnswered =>
        /\ response.code = 400
        /\ summary = NotCalled
        /\ recommendations = NotCalled
        /\ generated = <<>>
        /\ reportData = Undefined
        /\ html = NotCalled
        /\ result = NotCalled
        /\ ~has(response.body, "reportData")
        /\ ~has(response.body, "htmlContent")

\* a well-formed url with backlinks alone missing has been answered with 400
C16_Witness ==
    /\ response # NotCalled
    /\ url = UrlMixedCase
    /\ Absent(data) = {"backlinks"}
    /\ response.code = 400
    /\ summary = NotCalled

\* the module names that occur in an error message of the routes
namesIn(message) ==
    IF message = "All module data is required (technicalSeo, contentAudit, keywords, backlinks)"
    THEN {"technicalSeo", "contentAudit", "keywords", "backlinks"}
    ELSE {}

\* C17 as stated: the 400 error names exactly the modules that are missing.
C17_NamesMissingOnly ==
    MissingModuleAnswered =>
        /\ response.code = 400
        /\ namesIn(response.body.error) = Absent(data)

\* C17: the 400 error is one fixed message that says all module data is
\* required and names all four modules, whichever of them are missing.
C17_NamesAllFour ==
    MissingModuleAnswered =>
        /\ response.code = 400
        /\ DOMAIN response.body = {"error"}
        /\ namesIn(response.body.error) = ModuleNames

\* keywords alone is missing, and the error names the three present modules too
C17_Witness ==
    /\ response # NotCalled
    /\ url # <<>>
    /\ Absent(data) = {"keywords"}
    /\ response.code = 400
    /\ namesIn(response.body.error) = ModuleNames
    /\ namesIn(response.body.error) # Absent(data)

\* a route has answered a request whose four modules are present and whose
\* url is not empty but has no host: it does not parse, or parses to an
\* empty hostname
HostlessUrlAnswered ==
    /\ response # NotCalled
    /\ url # <<>>
    /\ Absent(data) = {}
    /\ \/ hostname(url).status = "raised"
       \/ hostname(url).value = <<>>

\* C18: a url with no parseable host is rejected before anything is derived:
\* no summary, no recommendations, no document and no report are produced and
\* the caller receives a failure response {error, message}.
C18_HostlessUrlRejected ==
    HostlessUrlAnswered =>
        /\ response.code # 200
        /\ {"error", "message"} \subseteq DOMAIN response.body
        /\ summary = NotCalled
        /\ recommendations = NotCalled
        /\ reportData = Undefined
        /\ html = NotCalled
        /\ result.status = "raised"

(***************************************************************************)
(* Properties of HTMLReportTemplate                                        *)
(***************************************************************************)
\* the rendered document
Document == html.value

\* the blocks of a document by name: the header, the footer, and each
\* section by its heading
SectionNames(document) ==
    [i \in 1..Len(document.body) |->
        IF document.body[i].class = "section" THEN document.body[i].title
        ELSE document.body[i].class]

\* the block of a document with the given heading
Section(document, title) ==
    document.body[CHOOSE i \in 1..Len(document.body) :
                      SectionNames(document)[i] = title]

\* C19: HTMLReportTemplate.generate never raises on a well-formed report and
\* emits, in this order, the header, the executive summary, technical SEO,
\* content audit, keywords, backlinks, recommendations and the footer, where
\* the executive summary is emitted iff report.executiveSummary is present,
\* the recommendations iff report.recommendations is present, and the other
\* six always.
C19_SectionOrder ==
    (html # NotCalled /\ reportData # Undefined) =>
        /\ html.status = "returned"
        /\ SectionNames(Document) =
              <<"header">>
              \o (IF has(reportData, "executiveSummary")
                  THEN <<"Executive Summary">> ELSE <<>>)
              \o <<"Technical SEO", "Content Audit", "Keyword Analysis", "Backlink Profile">>
              \o (IF has(reportData, "recommendations")
                  THEN <<"Recommendations & Roadmap">> ELSE <<>>)
              \o <<"footer">>

\* a report with recommendations and without an executive summary has been
\* rendered into seven blocks
C19_Witness ==
    /\ html.status = "returned"
    /\ ~has(reportData, "executiveSummary")
    /\ has(reportData, "recommendations")
    /\ Len(reportData.recommendations) = 10
    /\ Len(Document.body) = 7
    /\ SectionNames(Document)[6] = "Recommendations & Roadmap"

\* a rendered report with an executive summary, no issue and an empty list
\* of recommendations
EmptyReportRendered ==
    /\ html # NotCalled
    /\ reportData # Undefined
    /\ has(reportData, "executiveSummary")
    /\ has(reportData, "recommendations")
    /\ reportData.recommendations = <<>>
    /\ reportData.technicalSeo.issues = <<>>
    /\ reportData.contentAudit.issues = <<>>

\* the headings of the summary and of the four module sections
ModuleHeadings ==
    {"Executive Summary", "Technical SEO", "Content Audit", "Keyword Analysis",
     "Backlink Profile"}

\* the headings a document contains
Headings(document) ==
    {SectionNames(document)[i] : i \in 1..Len(document.body)}

\* C20 as stated: a report with zero issues and zero recommendations renders
\* to a document that keeps the headings of the summary and of the four
\* module sections and has no recommendations heading.
C20_NoRecommendationsHeading ==
    EmptyReportRendered =>
        /\ html.status = "returned"
        /\ ModuleHeadings \subseteq Headings(Document)
        /\ "Recommendations & Roadmap" \notin Headings(Document)

\* C20: a report with zero issues and zero recommendations renders to a
\* document that keeps the headings of the summary and of the four module
\* sections, and also the recommendations heading, over an empty list of
\* cards; only the "Technical Issues" list is left out.
C20_EmptySectionsKept ==
    EmptyReportRendered =>
        /\ html.status = "returned"
        /\ ModuleHeadings \subseteq Headings(Document)
        /\ "Recommendations & Roadmap" \in Headings(Document)
        /\ Section(Document, "Recommendations & Roadmap").cards = <<>>
        /\ Section(Document, "Technical SEO").issues = <<>>

\* such a report has been rendered: eight blocks, the seventh the empty
\* recommendations section
C20_Witness ==
    /\ EmptyReportRendered
    /\ html.status = "returned"
    /\ reportData.executiveSummary.urgentIssues = <<>>
    /\ Len(Document.body) = 8
    /\ Document.body[7].title = "Recommendations & Roadmap"
    /\ Document.body[7].cards = <<>>

\* the first min(Len(list), cap) entries of a list, each rendered by row
FirstRows(list, cap, row(_)) ==
    [i \in 1..Min(Len(list), cap) |-> row(list[i])]

\* C21: every rendered table shows the first min(n, cap) entries of its
\* input list, in input order, and nothing else: top pages cap 10, best and
\* worst keywords cap 5, top referring domains and anchor texts cap 10; an
\* empty list yields a table with zero rows, not a failure.
C21_TablesCapped ==
    (html # NotCalled /\ reportData # Undefined) =>
        /\ html.status = "returned"
        /\ Section(Document, "Content Audit").rows =
              FirstRows(data.contentAudit.topPages, 10, topPageRow)
        /\ Section(Document, "Keyword Analysis").best =
              FirstRows(data.keywords.performingKeywords.best, 5, bestKeywordRow)
        /\ Section(Document, "Keyword Analysis").worst =
              FirstRows(data.keywords.performingKeywords.worst, 5, worstKeywordRow)
        /\ Section(Document, "Backlink Profile").domains =
              FirstRows(data.backlinks.topReferringDomains, 10, referringDomainRow)
        /\ Section(Document, "Backlink Profile").anchors =
              FirstRows(data.backlinks.anchorTexts, 10, anchorTextRow)

\* eleven pages, six worst keywords and no best keyword have been rendered
\* into ten rows, five rows and an empty table
C21_Witness ==
    /\ html.status = "returned"
    /\ Len(data.contentAudit.topPages) = 11
    /\ Len(data.keywords.performingKeywords.worst) = 6
    /\ data.keywords.performingKeywords.best = <<>>
    /\ Len(Section(Document, "Content Audit").rows) = 10
    /\ Section(Document, "Content Audit").rows[10].href = data.contentAudit.topPages[10].url
    /\ Len(Section(Document, "Keyword Analysis").worst) = 5
    /\ Section(Document, "Keyword Analysis").best = <<>>

\* the data of a chart of the document's script
ChartData(document, chart) ==
    document.script[CHOOSE i \in 1..Len(document.script) :
                        document.script[i].chart = chart].data

\* C22: the three metadata-completeness values the rendered document shows
\* are the report's own titleTags, metaDescriptions and h1Tags percentages.
C22_MetadataValues ==
    (html # NotCalled /\ html.status = "returned") =>
        ChartData(Document, "metadataChart") =
            << reportData.contentAudit.metadataCompleteness.titleTags.percentage,
               reportData.contentAudit.metadataCompleteness.metaDescriptions.percentage,
               reportData.contentAudit.metadataCompleteness.h1Tags.percentage >>

(***************************************************************************)
(* C26 to C30: the assembly of a report                                    *)
(***************************************************************************)
\* the place of a line in the console
lineNumber(line) == CHOOSE i \in 1..Len(console) : console[i].line = line

\* the time a line was logged at
loggedAt(line) == console[lineNumber(line)].at

\* C26: a report that generateCompleteReport returns was assembled in the
\* order summary, recommendations, time stamp, rendering: analyzedAt is one
\* reading of the clock, taken not before the call, not before the engine was
\* started and not after rendering began, and the rendered document shows that
\* same reading; the report carries the summary and the recommendations that
\* were generated and embeds the four modules unchanged.
C26_AssemblyOrder ==
    (result # NotCalled /\ result.status = "returned") =>
        /\ lineNumber("Generating executive summary...")
              < lineNumber("Generating recommendations...")
        /\ lineNumber("Generating recommendations...")
              < lineNumber("Generating HTML report...")
        /\ notAfter(loggedAt("Starting complete SEO report generation..."), Report.analyzedAt.iso)
        /\ notAfter(loggedAt("Generating recommendations..."), Report.analyzedAt.iso)
        /\ notAfter(Report.analyzedAt.iso, loggedAt("Generating HTML report..."))
        /\ notAfter(Report.analyzedAt.iso, clock)
        /\ Section(result.value.html, "header").date = toLocaleDateString(Report.analyzedAt)
        /\ Section(result.value.html, "footer").date = toLocaleDateString(Report.analyzedAt)
        /\ Report.domain = hostname(url).value
        /\ Report.executiveSummary = summary.value
        /\ Report.recommendations = recommendations.value
        /\ \A m \in ModuleNames : Report[m] = data[m]

\* a report has been returned that was asked for on one day, stamped on the
\* next after the summary took time to generate, and rendered later still
C26_Witness ==
    /\ result # NotCalled
    /\ result.status = "returned"
    /\ loggedAt("Starting complete SEO report generation...").day
          < loggedAt("Generating recommendations...").day
    /\ Report.analyzedAt.iso # clock
    /\ Section(result.value.html, "header").date.day = Report.analyzedAt.iso.day

\* the assembly reached the conversion to PDF: the format was "pdf" and the
\* document was rendered
ConversionStarted == \E i \in 1..Len(console) : console[i].line = "Converting to PDF..."

Dropped ==
    {i \in 1..Len(generated) : \A j \in 1..Len(Ranked) : Ranked[j] # generated[i]}

\* C28: the cap of ten never removes a high-priority recommendation: at most
\* eight of the generated recommendations are high-priority, each of them is
\* in the returned list, and every recommendation the cap removes is
\* medium-priority.
C28_HighSurvive ==
    (recommendations # NotCalled /\ recommendations.status = "returned") =>
        /\ Cardinality({i \in 1..Len(generated) : generated[i].priority = "high"}) <= 8
        /\ \A i \in 1..Len(generated) :
              generated[i].priority = "high" => i \notin Dropped
        /\ \A i \in Dropped : generated[i].priority = "medium"

\* all fifteen rules fired: the eight high-priority recommendations were kept
\* and five medium ones removed
C28_Witness ==
    /\ recommendations # NotCalled
    /\ recommendations.status = "returned"
    /\ Len(generated) = 15
    /\ Len(Ranked) = 10
    /\ Cardinality(Dropped) = 5
    /\ Cardinality({j \in 1..Len(Ranked) : Ranked[j].priority = "high"}) = 8

\* the recommendation that answers each urgent issue
MatchingTitle(issue) ==
    CASE issue = "Poor performance score - immediate optimization needed" ->
            "Improve Page Performance"
      [] issue = "Slow page loading speed (LCP > 4s)" -> "Fix Largest Contentful Paint (LCP)"
      [] issue = "Many pages missing title tags" -> "Add Missing Title Tags"
      [] issue = "Many pages missing meta descriptions" -> "Write Meta Descriptions"
      [] issue = "Most pages lack proper H1 headings" -> "Add H1 Headings"
      [] issue = "Very few keywords ranking in top 10" -> "Improve Keyword Rankings"
      [] issue = "Significant backlink loss detected" -> "Address Backlink Loss"

\* the titles of the returned recommendations
RankedTitles == {Ranked[j].title : j \in 1..Len(Ranked)}

\* C29: every urgent issue the executive summary lists has its matching
\* recommendation in the returned recommendations.
C29_UrgentIssuesAnswered ==
    (/\ summary # NotCalled /\ summary.status = "returned"
     /\ recommendations # NotCalled /\ recommendations.status = "returned") =>
        \A i \in 1..Len(summary.value.urgentIssues) :
            MatchingTitle(summary.value.urgentIssues[i]) \in RankedTitles

(***************************************************************************)
(* C23: the combined analysis waits for its four requests                  *)
(***************************************************************************)
\* C23: the analyze-and-report handler responds only when all four of its
\* provider requests have settled: no response is sent while a request is
\* still pending, also not after one of them was rejected.
C23_RespondsAfterAllSettled ==
    (pc = "done" /\ response # NotCalled) =>
        \A m \in ModuleNames : requests[m] # "pending"

(***************************************************************************)
(* C24 and C27: the keywords endpoint                                      *)
(***************************************************************************)
\* the keywords endpoint has answered a request whose url parses
KeywordsAnswered ==
    /\ keywordsResponse # NotCalled
    /\ ~urlMissing(url)
    /\ hostname(url).status = "returned"

Buckets == {"top3", "top10", "top50"}

\* C24: whatever the live sources do, the keywords endpoint answers a request
\* for a well-formed url with status 200 and a fully populated payload: every
\* field of the analysis is present and no percentage is null, also when a
\* live source answers successfully with zero results.
C24_AlwaysPopulated ==
    KeywordsAnswered =>
        /\ keywordsResponse.code = 200
        /\ DOMAIN keywordsResponse.body =
              {"totalKeywords", "indexedKeywords", "distribution", "performingKeywords",
               "opportunities", "organicTraffic"}
        /\ \A b \in Buckets : keywordsResponse.body.distribution[b].percentage # Null

\* the place of a provider in the order of the fallbacks
placeOf(provider) == CHOOSE i \in 1..Len(ProviderOrder) : ProviderOrder[i] = provider

\* C27: the providers are contacted in the order ScaleSerp, SerpApi,
\* ValueSerp, only those with a key, each only after every configured one
\* before it failed, and whenever a provider fails, by a response that is not
\* ok or by a request error, the next configured provider is tried: generated
\* data is used only when every configured provider was tried and failed.
C27_FallbackChain ==
    KeywordsAnswered =>
        /\ \A i \in 1..Len(contacted) : contacted[i].provider \in keys
        /\ \A i \in 1..Len(contacted), j \in 1..Len(contacted) :
              i < j => /\ placeOf(contacted[i].provider) < placeOf(contacted[j].provider)
                       /\ contacted[i].outcome # "ok"
        /\ \A p \in keys :
              (\A i \in 1..Len(contacted) : contacted[i].provider # p) =>
                  \E i \in 1..Len(contacted) :
                      /\ placeOf(contacted[i].provider) < placeOf(p)
                      /\ contacted[i].outcome = "ok"

====
